---- MODULE Spec2Model ----
(***************************************************************************)
(* LibDS driver-station protocol codecs: FRC 2014 (frc_2014.c) and FRC     *)
(* 2015 (frc_2015.c).  Each codec is a set of file-static variables plus   *)
(* the functions published through the DS_Protocol descriptor; both read   *)
(* and write the process-wide configuration registry (DS_Config).          *)
(***************************************************************************)
EXTENDS Integers, Sequences, FiniteSets, TLC

VARIABLES
    protocol,    \* which descriptor the scheduler drives: 2014 or 2015
    cfg,         \* DS_Config: the process-wide configuration registry
    frc_2014,    \* file-static variables of frc_2014.c
    frc_2015,    \* file-static variables of frc_2015.c
    out,         \* the last call: its name, its argument and what it returned
    threads      \* positions and locals of the scheduler's threads

vars == <<protocol, cfg, frc_2014, frc_2015, out, threads>>

(***************************************************************************)
(* Bounds of the model.                                                    *)
(***************************************************************************)
\* A run follows each send counter for MaxSends packets from where it starts.
MaxSends == 2

(***************************************************************************)
(* Integer helpers: C's fixed-width arithmetic and bit operations.         *)
(***************************************************************************)
Pow2(n) == 2 ^ n

U8(x) == x % 256

\* A 32-bit unsigned int is the pair <<high half, low half>> of 16-bit halves.
U32(hi, lo) == <<hi, lo>>

\* x + k on an unsigned int, for k below 2^16
U32_Add(x, k) ==
    <<(x[1] + ((x[2] + k) \div Pow2(16))) % Pow2(16), (x[2] + k) % Pow2(16)>>

\* static unsigned int sent_robot_packets = 0
ZeroCounter == U32(0, 0)

\* ++x on an unsigned int
U32_Inc(x) == U32_Add(x, 1)

\* x > n on an unsigned int, for n below 2^16
U32_Gt(x, n) == x[1] > 0 \/ x[2] > n

\* The low 16 bits of an unsigned int, which are all that the masks 0xff00
\* and 0xff read
U32_Low16(x) == x[2]

RECURSIVE BitAnd(_, _)
BitAnd(a, b) ==
    IF a = 0 \/ b = 0 THEN 0
    ELSE (a % 2) * (b % 2) + 2 * BitAnd(a \div 2, b \div 2)

RECURSIVE BitOr(_, _)
BitOr(a, b) ==
    IF a = 0 THEN b
    ELSE IF b = 0 THEN a
    ELSE (IF a % 2 = 1 \/ b % 2 = 1 THEN 1 ELSE 0) + 2 * BitOr(a \div 2, b \div 2)

\* (x & 0xff00) >> 8 and (x & 0xff), as stored into a byte of a packet
HighByte(x) == U8(BitAnd(x % Pow2(16), 65280) \div 256)

LowByte(x) == BitAnd(x % Pow2(16), 255)

\* C truth of an int
Truthy(x) == x # 0

Zeros(n) == [i \in 1..n |-> 0]

\* data[i] of an sds string, i counted from 0 as in C.  An sds buffer always
\* carries a terminating NUL after its last byte, so data[sdslen] reads 0.
At(data, i) == IF i < Len(data) THEN data[i + 1] ELSE 0

\* A null sds pointer
NULL == <<-1>>

sdslen(data) == Len(data)

\* sdsgrowzero: grow to n bytes, the new bytes zero; no change if already longer
sdsgrowzero(data, n) ==
    IF Len(data) >= n THEN data ELSE data \o Zeros(n - Len(data))

(***************************************************************************)
(* DS_Types.h enumerations.                                                *)
(***************************************************************************)
DS_CONTROL_TEST == "DS_CONTROL_TEST"
DS_CONTROL_AUTONOMOUS == "DS_CONTROL_AUTONOMOUS"
DS_CONTROL_TELEOPERATED == "DS_CONTROL_TELEOPERATED"
DS_ControlMode == {DS_CONTROL_TEST, DS_CONTROL_AUTONOMOUS, DS_CONTROL_TELEOPERATED}

DS_ALLIANCE_RED == "DS_ALLIANCE_RED"
DS_ALLIANCE_BLUE == "DS_ALLIANCE_BLUE"
DS_Alliance == {DS_ALLIANCE_RED, DS_ALLIANCE_BLUE}

DS_POSITION_1 == "DS_POSITION_1"
DS_POSITION_2 == "DS_POSITION_2"
DS_POSITION_3 == "DS_POSITION_3"
DS_Position == {DS_POSITION_1, DS_POSITION_2, DS_POSITION_3}

(***************************************************************************)
(* DS_Config: the configuration registry, a record of independent fields   *)
(* behind getters and setters.  robot_voltage (a double) is kept exactly,  *)
(* as a whole number of 1 / VoltageScale volts.                            *)
(***************************************************************************)
VoltageScale == 255 * 100

\* The double upper + lower / 0xff
Volts(upper, lower) == upper * VoltageScale + lower * 100

CFG_SetControlMode(c, mode) == [c EXCEPT !.control_mode = mode]

CFG_SetRobotEnabled(c, enabled) == [c EXCEPT !.robot_enabled = Truthy(enabled)]

CFG_SetAlliance(c, alliance) == [c EXCEPT !.alliance = alliance]

CFG_SetPosition(c, position) == [c EXCEPT !.position = position]

CFG_SetRobotVoltage(c, voltage) == [c EXCEPT !.robot_voltage = voltage]

CFG_SetEmergencyStopped(c, stopped) ==
    [c EXCEPT !.emergency_stopped = Truthy(stopped)]

CFG_SetRobotCode(c, code) == [c EXCEPT !.robot_code = Truthy(code)]

CFG_SetCANUtilization(c, x) == [c EXCEPT !.can_utilization = x]

CFG_SetRobotCPUUsage(c, x) == [c EXCEPT !.robot_cpu_usage = x]

CFG_SetRobotRAMUsage(c, x) == [c EXCEPT !.robot_ram_usage = x]

CFG_SetRobotDiskUsage(c, x) == [c EXCEPT !.robot_disk_usage = x]

(***************************************************************************)
(* DS_Joysticks: the registry is a sequence of joysticks, each with its    *)
(* axes (reals in [-1, 1]; here -1, 0 or 1), buttons and hats.  Indices    *)
(* count from 0 as in C; a missing joystick or member reads as neutral.    *)
(***************************************************************************)
DS_GetJoystickCount(js) == Len(js)

DS_GetJoystickNumAxes(js, i) == IF i < Len(js) THEN Len(js[i + 1].axes) ELSE 0

DS_GetJoystickNumButtons(js, i) == IF i < Len(js) THEN Len(js[i + 1].buttons) ELSE 0

DS_GetJoystickNumHats(js, i) == IF i < Len(js) THEN Len(js[i + 1].hats) ELSE 0

DS_GetJoystickAxis(js, i, j) ==
    IF i < Len(js) /\ j < Len(js[i + 1].axes) THEN js[i + 1].axes[j + 1] ELSE 0

DS_GetJoystickButton(js, i, j) ==
    IF i < Len(js) /\ j < Len(js[i + 1].buttons) THEN js[i + 1].buttons[j + 1] ELSE FALSE

DS_GetJoystickHat(js, i, j) ==
    IF i < Len(js) /\ j < Len(js[i + 1].hats) THEN js[i + 1].hats[j + 1] ELSE 0

(***************************************************************************)
(* DS_Utils.                                                               *)
(***************************************************************************)
\* float -> signed byte, stored in a uint8_t: value / max scaled to 127
DS_GetFByte(value, max) == U8((value * 127) \div max)

RECURSIVE BitXor(_, _)
BitXor(a, b) ==
    IF a = 0 THEN b
    ELSE IF b = 0 THEN a
    ELSE ((a + b) % 2) + 2 * BitXor(a \div 2, b \div 2)

\* The reflected CRC-32 polynomial 0xEDB88320 and the all-ones word
CRC32_Poly == U32(60856, 33568)

CRC32_Ones == U32(65535, 65535)

U32_Xor(a, b) == <<BitXor(a[1], b[1]), BitXor(a[2], b[2])>>

\* x >> 1 on an unsigned int
U32_Shr1(x) == <<x[1] \div 2, (x[2] \div 2) + (x[1] % 2) * Pow2(15)>>

\* One bit of the CRC: shift right, and fold the polynomial in on a carry
CRC32_Bit(crc) ==
    IF crc[2] % 2 = 1 THEN U32_Xor(U32_Shr1(crc), CRC32_Poly) ELSE U32_Shr1(crc)

\* x >> 8 on an unsigned int
U32_Shr8(x) == <<x[1] \div Pow2(8), (x[2] \div Pow2(8)) + (x[1] % Pow2(8)) * Pow2(8)>>

\* The CRC table: entry n is n after eight bits
CRC32_Table[n \in 0..255] ==
    LET step[k \in 0..8] == IF k = 0 THEN U32(0, n) ELSE CRC32_Bit(step[k - 1])
    IN  step[8]

\* One byte of the CRC: crc = table[(crc ^ byte) & 0xff] ^ (crc >> 8)
CRC32_Byte(crc, byte) ==
    U32_Xor(CRC32_Table[BitXor(crc[2] % Pow2(8), byte)], U32_Shr8(crc))

CRC32_Bytes(crc, data, n) ==
    LET acc[i \in 0..n] ==
            IF i = 0 THEN crc ELSE CRC32_Byte(acc[i - 1], At(data, i - 1))
    IN  acc[n]

\* DS_CRC32 (seed, buf, size): the standard CRC-32 of the first size bytes
DS_CRC32(seed, data, size) ==
    U32_Xor(CRC32_Bytes(U32_Xor(seed, CRC32_Ones), data, size), CRC32_Ones)

(***************************************************************************)
(* frc_2014.c                                                              *)
(***************************************************************************)
cEnabled_2014 == 32
cTestMode_2014 == 2
cAutonomous_2014 == 16
cTeleoperated_2014 == 0
cFMS_Attached_2014 == 8
cResyncComms_2014 == 4
cRebootRobot_2014 == 128
cEmergencyStopOn_2014 == 0
cEmergencyStopOff_2014 == 64
cPosition1_2014 == 49
cPosition2_2014 == 50
cPosition3_2014 == 51
cAllianceRed_2014 == 82
cAllianceBlue_2014 == 66
cFMSAutonomous_2014 == 83
cFMSTeleoperated_2014 == 67

\* static uint32_t crc32 = 0
crc32_2014 == U32(0, 0)

max_axes_2014 == 6
max_hats_2014 == 0
max_buttons_2014 == 10
max_joysticks_2014 == 4

\* sizeof (data) in create_robot_packet: data is a pointer (sds is char*)
PointerSizes == {4, 8}

get_alliance_2014(byte) ==
    IF byte = cAllianceRed_2014 THEN DS_ALLIANCE_RED ELSE DS_ALLIANCE_BLUE

get_position_2014(byte) ==
    IF byte = cPosition1_2014 THEN DS_POSITION_1
    ELSE IF byte = cPosition2_2014 THEN DS_POSITION_2
    ELSE IF byte = cPosition3_2014 THEN DS_POSITION_3
    ELSE DS_POSITION_1

\* A variant that applies the e-stop override after the reboot override
get_control_code_2014_estop_last(c, s) ==
    LET enabled == IF c.robot_enabled THEN cEnabled_2014 ELSE 0
        mode == IF c.control_mode = DS_CONTROL_TEST THEN cTestMode_2014
                ELSE IF c.control_mode = DS_CONTROL_AUTONOMOUS THEN cAutonomous_2014
                ELSE cTeleoperated_2014
        code1 == BitOr(cEmergencyStopOff_2014, U8(enabled + mode))
        code2 == IF Truthy(s.resync) THEN BitOr(code1, cResyncComms_2014) ELSE code1
        code3 == IF c.fms_comms THEN BitOr(code2, cFMS_Attached_2014) ELSE code2
        code4 == IF Truthy(s.reboot) THEN cRebootRobot_2014 ELSE code3
    IN  IF c.emergency_stopped THEN cEmergencyStopOn_2014 ELSE code4

get_control_code_2014(c, s) ==
    LET enabled == IF c.robot_enabled THEN cEnabled_2014 ELSE 0
        code0 == cEmergencyStopOff_2014
        code1 == IF c.control_mode = DS_CONTROL_TEST
                     THEN BitOr(code0, U8(enabled + cTestMode_2014))
                 ELSE IF c.control_mode = DS_CONTROL_AUTONOMOUS
                     THEN BitOr(code0, U8(enabled + cAutonomous_2014))
                 ELSE IF c.control_mode = DS_CONTROL_TELEOPERATED
                     THEN BitOr(code0, U8(enabled + cTeleoperated_2014))
                 ELSE cEmergencyStopOff_2014
        code2 == IF Truthy(s.resync) THEN BitOr(code1, cResyncComms_2014) ELSE code1
        code3 == IF c.fms_comms THEN BitOr(code2, cFMS_Attached_2014) ELSE code2
        code4 == IF c.emergency_stopped THEN cEmergencyStopOn_2014 ELSE code3
        code5 == IF Truthy(s.reboot) THEN cRebootRobot_2014 ELSE code4
    IN  code5

get_alliance_code_2014(c) ==
    IF c.alliance = DS_ALLIANCE_RED THEN cAllianceRed_2014 ELSE cAllianceBlue_2014

get_position_code_2014(c) ==
    IF c.position = DS_POSITION_1 THEN cPosition1_2014
    ELSE IF c.position = DS_POSITION_2 THEN cPosition2_2014
    ELSE IF c.position = DS_POSITION_3 THEN cPosition3_2014
    ELSE cPosition1_2014

get_digital_inputs_2014 == 0

\* uint16_t button_flags, += pow (2, j) for each pressed button j < n
RECURSIVE button_flags(_, _, _, _)
button_flags(js, i, j, n) ==
    IF j >= n THEN 0
    ELSE ((IF DS_GetJoystickButton(js, i, j) THEN Pow2(j) ELSE 0)
          + button_flags(js, i, j + 1, n)) % Pow2(16)

RECURSIVE axis_bytes(_, _, _, _)
axis_bytes(js, i, j, n) ==
    IF j >= n THEN <<>>
    ELSE <<DS_GetFByte(DS_GetJoystickAxis(js, i, j), 1)>> \o axis_bytes(js, i, j + 1, n)

RECURSIVE get_joystick_data_2014_from(_, _)
get_joystick_data_2014_from(js, i) ==
    IF i >= max_joysticks_2014 THEN <<>>
    ELSE LET flags == button_flags(js, i, 0, max_buttons_2014)
         IN  axis_bytes(js, i, 0, max_axes_2014)
             \o <<HighByte(flags), LowByte(flags)>>
             \o get_joystick_data_2014_from(js, i + 1)

get_joystick_data_2014(js) == get_joystick_data_2014_from(js, 0)

\* A variant that writes the version string one byte further on
robot_packet_2014_version_shifted(c, js, s, psize) ==
    LET head == << HighByte(U32_Low16(s.sent_robot_packets)),
                   LowByte(U32_Low16(s.sent_robot_packets)),
                   get_control_code_2014(c, s), get_digital_inputs_2014,
                   HighByte(c.team_number), LowByte(c.team_number),
                   get_alliance_code_2014(c), get_position_code_2014(c) >>
        grown == sdsgrowzero(head \o get_joystick_data_2014(js), 1024)
    IN  [grown EXCEPT ![74] = 48, ![75] = 52, ![76] = 48, ![77] = 49,
                      ![78] = 49, ![79] = 54, ![80] = 48, ![81] = 48]

\* The datagram create_robot_packet returns; psize is sizeof (data).
robot_packet_2014(c, js, s, psize) ==
    LET head == << HighByte(U32_Low16(s.sent_robot_packets)),
                   LowByte(U32_Low16(s.sent_robot_packets)),
                   get_control_code_2014(c, s), get_digital_inputs_2014,
                   HighByte(c.team_number), LowByte(c.team_number),
                   get_alliance_code_2014(c), get_position_code_2014(c) >>
        grown == sdsgrowzero(head \o get_joystick_data_2014(js), 1024)
        versioned == [grown EXCEPT ![73] = 48, ![74] = 52, ![75] = 48, ![76] = 49,
                                   ![77] = 49, ![78] = 54, ![79] = 48, ![80] = 48]
        \* uint8_t checksum = DS_CRC32 (...): the CRC is cut to its low byte
        checksum == U8(U32_Low16(DS_CRC32(crc32_2014, versioned, psize)))
        \* (checksum & 0xff000000) >> 24 and so on, of a value below 2^8
    IN  [versioned EXCEPT ![1021] = U8(checksum \div Pow2(24)),
                          ![1022] = U8(BitAnd(checksum, 16711680) \div Pow2(16)),
                          ![1023] = U8(BitAnd(checksum, 65280) \div Pow2(8)),
                          ![1024] = BitAnd(checksum, 255)]

\* The configuration after the first k of read_fms_packet's five statements
\* that write it (switch to autonomous, switch to teleoperated, enable,
\* alliance, position), for an accepted datagram.
read_fms_packet_2014_upto(c, data, k) ==
    LET robotmod == At(data, 2)
        alliance == At(data, 3)
        position == At(data, 4)
        c1 == IF k >= 1 /\ Truthy(BitAnd(robotmod, cFMSAutonomous_2014))
                  THEN CFG_SetControlMode(c, DS_CONTROL_AUTONOMOUS) ELSE c
        c2 == IF k >= 2 /\ Truthy(BitAnd(robotmod, cFMSTeleoperated_2014))
                  THEN CFG_SetControlMode(c1, DS_CONTROL_TELEOPERATED) ELSE c1
        c3 == IF k >= 3 THEN CFG_SetRobotEnabled(c2, BitAnd(robotmod, cEnabled_2014)) ELSE c2
        c4 == IF k >= 4 THEN CFG_SetAlliance(c3, get_alliance_2014(alliance)) ELSE c3
        c5 == IF k >= 5 THEN CFG_SetPosition(c4, get_position_2014(position)) ELSE c4
    IN  c5

\* A variant in which an accepted FMS datagram also lifts the e-stop
read_fms_packet_2014_lifts_estop(c, data) ==
    IF data = NULL THEN <<0, c>>
    ELSE IF sdslen(data) < 5 THEN <<0, c>>
    ELSE <<1, CFG_SetEmergencyStopped(read_fms_packet_2014_upto(c, data, 5), 0)>>

\* A variant without the length check
read_fms_packet_2014_no_floor(c, data) ==
    IF data = NULL THEN <<0, c>>
    ELSE <<1, read_fms_packet_2014_upto(c, data, 5)>>

\* read_fms_packet: <<return value, configuration afterwards>>
read_fms_packet_2014(c, data) ==
    IF data = NULL THEN <<0, c>>
    ELSE IF sdslen(data) < 5 THEN <<0, c>>
    ELSE <<1, read_fms_packet_2014_upto(c, data, 5)>>

\* read_radio_packet: the datagram is ignored
read_radio_packet_2014(c, data) == <<0, c>>

\* read_robot_packet: <<return value, configuration afterwards>>
\* A variant that takes the lower voltage byte as it comes
read_robot_packet_2014_lower_raw(c, data) ==
    IF data = NULL THEN <<0, c>>
    ELSE IF sdslen(data) < 1024 THEN <<0, c>>
    ELSE LET upper == U8((At(data, 1) * 12) \div 18)
             c1 == CFG_SetRobotVoltage(c, Volts(upper, At(data, 2)))
             c2 == CFG_SetEmergencyStopped(c1,
                       IF At(data, 0) = cEmergencyStopOn_2014 THEN 1 ELSE 0)
             c3 == CFG_SetRobotCode(c2, 1)
         IN  <<1, c3>>

read_robot_packet_2014(c, data) ==
    IF data = NULL THEN <<0, c>>
    ELSE IF sdslen(data) < 1024 THEN <<0, c>>
    ELSE LET upper == U8((At(data, 1) * 12) \div 18)
             lower == U8((At(data, 2) * 12) \div 18)
             c1 == CFG_SetRobotVoltage(c,  Volts(upper, lower))
             c2 == CFG_SetEmergencyStopped(c1,
                       IF At(data, 0) = cEmergencyStopOn_2014 THEN 1 ELSE 0)
             c3 == CFG_SetRobotCode(c2, 1)
         IN  <<1, c3>>

\* A variant that also restarts the packet count
reset_robot_2014_restarts_count(s) ==
    [s EXCEPT !.resync = 1, !.reboot = 0, !.restart_code = 0,
              !.sent_robot_packets = ZeroCounter]

\* reset_robot: the static flags afterwards
reset_robot_2014(s) == [s EXCEPT !.resync = 1, !.reboot = 0, !.restart_code = 0]

\* A variant in which asking for a reboot ends the resynchronisation
reboot_robot_2014_clears_resync(s) == [s EXCEPT !.reboot = 1, !.resync = 0]

reboot_robot_2014(s) == [s EXCEPT !.reboot = 1]

restart_robot_code_2014(s) == [s EXCEPT !.restart_code = 1]

(***************************************************************************)
(* frc_2015.c                                                              *)
(***************************************************************************)
cTest_2015 == 1
cEnabled_2015 == 4
cAutonomous_2015 == 2
cTeleoperated_2015 == 0
cFMS_Attached_2015 == 8
cEmergencyStop_2015 == 128
cRequestReboot_2015 == 8
cRequestNormal_2015 == 128
cRequestUnconnected_2015 == 0
cRequestRestartCode_2015 == 4
cFMS_RadioPing_2015 == 16
cFMS_RobotPing_2015 == 8
cFMS_RobotComms_2015 == 32
cFMS_DS_Version_2015 == 0
cTagDate_2015 == 15
cTagGeneral_2015 == 1
cTagJoystick_2015 == 12
cTagTimezone_2015 == 16
cRed1_2015 == 0
cRed2_2015 == 1
cRed3_2015 == 2
cBlue1_2015 == 3
cBlue2_2015 == 4
cBlue3_2015 == 5
cRTagCANInfo_2015 == 14
cRTagCPUInfo_2015 == 5
cRTagRAMInfo_2015 == 6
cRTagDiskInfo_2015 == 4
cRequestTime_2015 == 1
cRobotHasCode_2015 == 32

decode_voltage(upper, lower) == Volts(upper, lower)

\* encode_voltage: <<upper[0], lower[0]>>.  The cast in
\* (uint8_t) (voltage - (int) voltage) * 100 binds to the difference alone.
\* A variant that stores the whole volts in a signed byte's seven bits
encode_voltage_seven_bits(voltage) ==
    LET whole == voltage \div VoltageScale
    IN  << whole % 128, 0 >>

encode_voltage(voltage) ==
    LET whole == voltage \div VoltageScale
        fraction == voltage - whole * VoltageScale
    IN  << U8(whole), U8(U8(fraction \div VoltageScale) * 100) >>

fms_control_code_2015(c) ==
    LET code1 == IF c.control_mode = DS_CONTROL_TEST THEN BitOr(0, cTest_2015)
                 ELSE IF c.control_mode = DS_CONTROL_AUTONOMOUS
                     THEN BitOr(0, cAutonomous_2015)
                 ELSE IF c.control_mode = DS_CONTROL_TELEOPERATED
                     THEN BitOr(0, cTeleoperated_2015)
                 ELSE 0
        code2 == IF c.emergency_stopped THEN BitOr(code1, cEmergencyStop_2015) ELSE code1
        code3 == IF c.robot_enabled THEN BitOr(code2, cEnabled_2015) ELSE code2
        code4 == IF c.radio_comms THEN BitOr(code3, cFMS_RadioPing_2015) ELSE code3
        code5 == IF c.robot_comms
                     THEN BitOr(BitOr(code4, cFMS_RobotComms_2015), cFMS_RobotPing_2015)
                 ELSE code4
    IN  code5

\* A variant in which the e-stop bit stands alone
get_control_code_2015_estop_alone(c) ==
    IF c.emergency_stopped THEN cEmergencyStop_2015
    ELSE LET code1 == IF c.control_mode = DS_CONTROL_TEST THEN cTest_2015
                      ELSE IF c.control_mode = DS_CONTROL_AUTONOMOUS THEN cAutonomous_2015
                      ELSE cTeleoperated_2015
             code2 == IF c.fms_comms THEN BitOr(code1, cFMS_Attached_2015) ELSE code1
         IN  IF c.robot_enabled THEN BitOr(code2, cEnabled_2015) ELSE code2

get_control_code_2015(c) ==
    LET code1 == IF c.control_mode = DS_CONTROL_TEST THEN BitOr(0, cTest_2015)
                 ELSE IF c.control_mode = DS_CONTROL_AUTONOMOUS
                     THEN BitOr(0, cAutonomous_2015)
                 ELSE IF c.control_mode = DS_CONTROL_TELEOPERATED
                     THEN BitOr(0, cTeleoperated_2015)
                 ELSE 0
        code2 == IF c.fms_comms THEN BitOr(code1, cFMS_Attached_2015) ELSE code1
        code3 == IF c.emergency_stopped THEN BitOr(code2, cEmergencyStop_2015) ELSE code2
        code4 == IF c.robot_enabled THEN BitOr(code3, cEnabled_2015) ELSE code3
    IN  code4

\* A variant that sends the pending command whether the robot is there or not
get_request_code_2015_ignores_link(c, s) ==
    IF Truthy(s.reboot) THEN cRequestReboot_2015
    ELSE IF Truthy(s.restart_code) THEN cRequestRestartCode_2015
    ELSE IF c.robot_comms THEN cRequestNormal_2015
    ELSE cRequestUnconnected_2015

get_request_code_2015(c, s) ==
    IF c.robot_comms
        THEN IF Truthy(s.reboot) THEN cRequestReboot_2015
             ELSE IF Truthy(s.restart_code) THEN cRequestRestartCode_2015
             ELSE cRequestNormal_2015
    ELSE cRequestUnconnected_2015

get_station_code_2015(c) ==
    IF c.position = DS_POSITION_1
        THEN IF c.alliance = DS_ALLIANCE_RED THEN cRed1_2015 ELSE cBlue1_2015
    ELSE IF c.position = DS_POSITION_2
        THEN IF c.alliance = DS_ALLIANCE_RED THEN cRed2_2015 ELSE cBlue2_2015
    ELSE IF c.position = DS_POSITION_3
        THEN IF c.alliance = DS_ALLIANCE_RED THEN cRed3_2015 ELSE cBlue3_2015
    ELSE cRed1_2015

\* A variant whose size does not count the size byte itself
get_joystick_size_2015_excludes_itself(js, joystick) ==
    U8(1 + 3 + (DS_GetJoystickNumAxes(js, joystick) + 1)
         + ((DS_GetJoystickNumHats(js, joystick) * 2) + 1))

get_joystick_size_2015(js, joystick) ==
    LET header_size == 2
        button_data == 3
        axis_data == DS_GetJoystickNumAxes(js, joystick) + 1
        hat_data == (DS_GetJoystickNumHats(js, joystick) * 2) + 1
    IN  U8(header_size + button_data + axis_data + hat_data)

\* get_timezone_data; tm is localtime (0) with its tm_zone (ASCII codes)
get_timezone_data_2015(tm) ==
    << 11, cTagDate_2015, 0, 0,
       U8(tm.tm_sec), U8(tm.tm_min), U8(tm.tm_hour),
       U8(tm.tm_yday), U8(tm.tm_mon), U8(tm.tm_year),
       U8(sdslen(tm.tm_zone)), cTagTimezone_2015 >> \o tm.tm_zone

RECURSIVE hat_bytes(_, _, _, _)
hat_bytes(js, i, j, n) ==
    IF j >= n THEN <<>>
    ELSE << HighByte(DS_GetJoystickHat(js, i, j)), LowByte(DS_GetJoystickHat(js, i, j)) >>
         \o hat_bytes(js, i, j + 1, n)

RECURSIVE get_joystick_data_2015_from(_, _)
get_joystick_data_2015_from(js, i) ==
    IF i >= DS_GetJoystickCount(js) THEN <<>>
    ELSE LET flags == button_flags(js, i, 0, DS_GetJoystickNumButtons(js, i))
         IN  << get_joystick_size_2015(js, i), cTagJoystick_2015,
                U8(DS_GetJoystickNumAxes(js, i)) >>
             \o axis_bytes(js, i, 0, DS_GetJoystickNumAxes(js, i))
             \o << U8(DS_GetJoystickNumButtons(js, i)), HighByte(flags), LowByte(flags),
                   U8(DS_GetJoystickNumHats(js, i)) >>
             \o hat_bytes(js, i, 0, DS_GetJoystickNumHats(js, i))
             \o get_joystick_data_2015_from(js, i + 1)

get_joystick_data_2015(js) == get_joystick_data_2015_from(js, 0)

\* A variant that takes the byte at the offset for the tag
read_extended_2015_tag_at_offset(c, data, offset) ==
    IF data = NULL THEN c
    ELSE LET tag == At(data, offset)
         IN  IF tag = cRTagCANInfo_2015 THEN CFG_SetCANUtilization(c, At(data, 10))
             ELSE IF tag = cRTagCPUInfo_2015 THEN CFG_SetRobotCPUUsage(c, At(data, 3))
             ELSE IF tag = cRTagRAMInfo_2015 THEN CFG_SetRobotRAMUsage(c, At(data, 4))
             ELSE IF tag = cRTagDiskInfo_2015 THEN CFG_SetRobotDiskUsage(c, At(data, 4))
             ELSE c

\* read_extended (data, offset): the configuration afterwards
read_extended_2015(c, data, offset) ==
    IF data = NULL THEN c
    ELSE LET tag == At(data, offset + 1)
         IN  IF tag = cRTagCANInfo_2015 THEN CFG_SetCANUtilization(c, At(data, 10))
             ELSE IF tag = cRTagCPUInfo_2015 THEN CFG_SetRobotCPUUsage(c, At(data, 3))
             ELSE IF tag = cRTagRAMInfo_2015 THEN CFG_SetRobotRAMUsage(c, At(data, 4))
             ELSE IF tag = cRTagDiskInfo_2015 THEN CFG_SetRobotDiskUsage(c, At(data, 4))
             ELSE c

\* A variant that knows one blue station only
get_alliance_2015_first_blue(byte) ==
    IF byte = cBlue1_2015 THEN DS_ALLIANCE_BLUE ELSE DS_ALLIANCE_RED

get_alliance_2015(byte) ==
    IF byte = cBlue1_2015 \/ byte = cBlue2_2015 \/ byte = cBlue3_2015
        THEN DS_ALLIANCE_BLUE
    ELSE DS_ALLIANCE_RED

get_position_2015(byte) ==
    IF byte = cRed1_2015 \/ byte = cBlue1_2015 THEN DS_POSITION_1
    ELSE IF byte = cRed2_2015 \/ byte = cBlue2_2015 THEN DS_POSITION_2
    ELSE IF byte = cRed3_2015 \/ byte = cBlue3_2015 THEN DS_POSITION_3
    ELSE DS_POSITION_1

\* The datagram create_fms_packet returns
fms_packet_2015(c, s) ==
    LET v == encode_voltage(c.robot_voltage)
    IN  << HighByte(U32_Low16(s.sent_fms_packets)), LowByte(U32_Low16(s.sent_fms_packets)),
           cFMS_DS_Version_2015, fms_control_code_2015(c),
           HighByte(c.team_number), LowByte(c.team_number),
           v[1], v[2] >>

\* A variant with "if" where create_robot_packet has "else if"
robot_packet_2015_both(c, js, s, tm) ==
    LET head == << HighByte(U32_Low16(s.sent_robot_packets)),
                   LowByte(U32_Low16(s.sent_robot_packets)),
                   cTagGeneral_2015, get_control_code_2015(c),
                   get_request_code_2015(c, s), get_station_code_2015(c) >>
        timed == IF Truthy(s.send_time_data) THEN head \o get_timezone_data_2015(tm)
                 ELSE head
    IN  IF U32_Gt(s.sent_robot_packets, 5) THEN timed \o get_joystick_data_2015(js)
        ELSE timed

\* The datagram create_robot_packet returns; tm is what localtime gives
robot_packet_2015(c, js, s, tm) ==
    LET head == << HighByte(U32_Low16(s.sent_robot_packets)),
                   LowByte(U32_Low16(s.sent_robot_packets)),
                   cTagGeneral_2015, get_control_code_2015(c),
                   get_request_code_2015(c, s), get_station_code_2015(c) >>
    IN  IF Truthy(s.send_time_data) THEN head \o get_timezone_data_2015(tm)
        ELSE IF U32_Gt(s.sent_robot_packets, 5) THEN head \o get_joystick_data_2015(js)
        ELSE head

\* The configuration after the first k of read_fms_packet's four statements
\* that write it (enable, control mode, alliance, position)
read_fms_packet_2015_upto(c, data, k) ==
    LET control == At(data, 3)
        station == At(data, 5)
        c1 == IF k >= 1 THEN CFG_SetRobotEnabled(c, BitAnd(control, cEnabled_2015)) ELSE c
        c2 == IF k < 2 THEN c1
              ELSE IF Truthy(BitAnd(control, cTeleoperated_2015))
                  THEN CFG_SetControlMode(c1, DS_CONTROL_TELEOPERATED)
              ELSE IF Truthy(BitAnd(control, cAutonomous_2015))
                  THEN CFG_SetControlMode(c1, DS_CONTROL_AUTONOMOUS)
              ELSE IF Truthy(BitAnd(control, cTest_2015))
                  THEN CFG_SetControlMode(c1, DS_CONTROL_TEST)
              ELSE c1
        c3 == IF k >= 3 THEN CFG_SetAlliance(c2, get_alliance_2015(station)) ELSE c2
        c4 == IF k >= 4 THEN CFG_SetPosition(c3, get_position_2015(station)) ELSE c3
    IN  c4

\* A variant that takes a byte without mode bits for Teleoperated
read_fms_packet_2015_teleop_by_value(c, data) ==
    IF data = NULL THEN <<0, c>>
    ELSE IF sdslen(data) < 22 THEN <<0, c>>
    ELSE LET control == At(data, 3)
             station == At(data, 5)
             c1 == CFG_SetRobotEnabled(c, BitAnd(control, cEnabled_2015))
             c2 == IF Truthy(BitAnd(control, cAutonomous_2015))
                       THEN CFG_SetControlMode(c1, DS_CONTROL_AUTONOMOUS)
                   ELSE IF Truthy(BitAnd(control, cTest_2015))
                       THEN CFG_SetControlMode(c1, DS_CONTROL_TEST)
                   ELSE CFG_SetControlMode(c1, DS_CONTROL_TELEOPERATED)
             c3 == CFG_SetAlliance(c2, get_alliance_2015(station))
         IN  <<1, CFG_SetPosition(c3, get_position_2015(station))>>

\* A variant that tests the Test bit before the Autonomous bit
read_fms_packet_2015_test_first(c, data) ==
    IF data = NULL THEN <<0, c>>
    ELSE IF sdslen(data) < 22 THEN <<0, c>>
    ELSE LET control == At(data, 3)
             station == At(data, 5)
             c1 == CFG_SetRobotEnabled(c, BitAnd(control, cEnabled_2015))
             c2 == IF Truthy(BitAnd(control, cTeleoperated_2015))
                       THEN CFG_SetControlMode(c1, DS_CONTROL_TELEOPERATED)
                   ELSE IF Truthy(BitAnd(control, cTest_2015))
                       THEN CFG_SetControlMode(c1, DS_CONTROL_TEST)
                   ELSE IF Truthy(BitAnd(control, cAutonomous_2015))
                       THEN CFG_SetControlMode(c1, DS_CONTROL_AUTONOMOUS)
                   ELSE c1
             c3 == CFG_SetAlliance(c2, get_alliance_2015(station))
         IN  <<1, CFG_SetPosition(c3, get_position_2015(station))>>

\* read_fms_packet: <<return value, configuration afterwards>>
read_fms_packet_2015(c, data) ==
    IF data = NULL THEN <<0, c>>
    ELSE IF sdslen(data) < 22 THEN <<0, c>>
    ELSE <<1, read_fms_packet_2015_upto(c, data, 4)>>

read_radio_packet_2015(c, data) == <<0, c>>

\* A variant that reads the layout of the comment in read_robot_packet
\* (control 00, battery 31 00, request 01): no status byte
read_robot_packet_2015_as_commented(c, s, data) ==
    IF data = NULL THEN <<0, c, s>>
    ELSE IF sdslen(data) < 7 THEN <<0, c, s>>
    ELSE LET c1 == CFG_SetRobotCode(c, 0)
             c2 == CFG_SetEmergencyStopped(c1, BitAnd(At(data, 3), cEmergencyStop_2015))
             s1 == [s EXCEPT !.send_time_data =
                                 IF At(data, 6) = cRequestTime_2015 THEN 1 ELSE 0]
             c3 == CFG_SetRobotVoltage(c2, decode_voltage(At(data, 4), At(data, 5)))
         IN  <<1, c3, s1>>

\* A variant in which a date request, once made, stays
read_robot_packet_2015_latches_date(c, s, data) ==
    IF data = NULL THEN <<0, c, s>>
    ELSE IF sdslen(data) < 7 THEN <<0, c, s>>
    ELSE LET c1 == CFG_SetRobotCode(c, BitAnd(At(data, 4), cRobotHasCode_2015))
             c2 == CFG_SetEmergencyStopped(c1, BitAnd(At(data, 3), cEmergencyStop_2015))
             s1 == IF At(data, 7) = cRequestTime_2015
                       THEN [s EXCEPT !.send_time_data = 1] ELSE s
             c3 == CFG_SetRobotVoltage(c2, decode_voltage(At(data, 5), At(data, 6)))
             c4 == IF sdslen(data) > 9 THEN read_extended_2015(c3, data, 8) ELSE c3
         IN  <<1, c4, s1>>

\* The indices at which read_robot_packet, and read_extended for it, read
\* a datagram they accept
read_robot_packet_2015_indices(data) ==
    {3, 4, 7, 5, 6} \cup
    (IF sdslen(data) > 9
         THEN {8 + 1} \cup
              (IF At(data, 9) = cRTagCANInfo_2015 THEN {10}
               ELSE IF At(data, 9) = cRTagCPUInfo_2015 THEN {3}
               ELSE IF At(data, 9) = cRTagRAMInfo_2015 THEN {4}
               ELSE IF At(data, 9) = cRTagDiskInfo_2015 THEN {4}
               ELSE {})
     ELSE {})

\* read_robot_packet: <<return value, configuration afterwards, statics afterwards>>
read_robot_packet_2015(c, s, data) ==
    IF data = NULL THEN <<0, c, s>>
    ELSE IF sdslen(data) < 7 THEN <<0, c, s>>
    ELSE LET control == At(data, 3)
             rstatus == At(data, 4)
             request == At(data, 7)
             c1 == CFG_SetRobotCode(c, BitAnd(rstatus, cRobotHasCode_2015))
             c2 == CFG_SetEmergencyStopped(c1, BitAnd(control, cEmergencyStop_2015))
             s1 == [s EXCEPT !.send_time_data =
                                 IF request = cRequestTime_2015 THEN 1 ELSE 0]
             upper == At(data, 5)
             lower == At(data, 6)
             c3 == CFG_SetRobotVoltage(c2, decode_voltage(upper, lower))
             c4 == IF sdslen(data) > 9 THEN read_extended_2015(c3, data, 8) ELSE c3
         IN  <<1, c4, s1>>

\* A variant that leaves a date request pending
reset_robot_2015_keeps_date(s) == [s EXCEPT !.reboot = 0, !.restart_code = 0]

reset_robot_2015(s) == [s EXCEPT !.reboot = 0, !.restart_code = 0, !.send_time_data = 0]

\* A variant in which asking for a reboot withdraws a pending code restart
reboot_robot_2015_drops_restart(s) == [s EXCEPT !.reboot = 1, !.restart_code = 0]

reboot_robot_2015(s) == [s EXCEPT !.reboot = 1]

restart_robot_code_2015(s) == [s EXCEPT !.restart_code = 1]

(***************************************************************************)
(* The inputs of the model: what the registries hold, and the datagrams    *)
(* the scheduler feeds back.                                               *)
(***************************************************************************)
Teams == {3794}

\* The joystick registry: empty, or two joysticks of different shapes
JoystickStates ==
    { <<>>,
      << [axes |-> <<1, -1>>, buttons |-> <<TRUE, FALSE, TRUE>>, hats |-> <<-1>>],
         [axes |-> <<0>>, buttons |-> <<FALSE, TRUE>>, hats |-> <<>>] >> }

\* localtime (0) in UTC and in US Eastern time
LocalTimes ==
    { [tm_sec |-> 0, tm_min |-> 0, tm_hour |-> 0, tm_yday |-> 0, tm_mon |-> 0,
       tm_year |-> 70, tm_zone |-> <<85, 84, 67>>],
      [tm_sec |-> 0, tm_min |-> 0, tm_hour |-> 19, tm_yday |-> 364, tm_mon |-> 11,
       tm_year |-> 69, tm_zone |-> <<69, 83, 84>>] }

\* A datagram: the given bytes, zero-filled to n bytes
Pad(bytes, n) == sdsgrowzero(bytes, n)

\* 2014 FMS datagrams: <<_, _, robot mode, alliance, position>>
FmsData_2014 ==
    { NULL, <<0, 0, 48, 66>>,
      <<0, 0, 48, 66, 50>>, <<0, 0, 32, 82, 49>>, <<0, 0, 0, 82, 49>> }

\* 2014 robot datagrams: <<e-stop, voltage upper, voltage lower, ...>>
RobotData_2014 ==
    { NULL, Pad(<<0, 18, 20>>, 1023),
      Pad(<<0, 18, 20>>, 1024), Pad(<<64, 18, 20>>, 1024) }

\* 2015 FMS datagrams: <<_, _, _, control, _, station, ...>>
FmsData_2015 ==
    { NULL, Pad(<<0, 0, 0, 6, 0, 4>>, 21),
      Pad(<<0, 0, 0, 6, 0, 4>>, 22), Pad(<<0, 0, 0, 1, 0, 0>>, 22),
      Pad(<<0, 0, 0, 0, 0, 0>>, 22) }

\* 2015 robot datagrams: <<_, _, _, control, status, upper, lower, request, ...>>
RobotData_2015 ==
    { NULL, <<0, 81, 1, 128, 32, 12>>,
      <<0, 81, 1, 0, 32, 12, 0>>,
      <<0, 81, 1, 0, 32, 12, 0, 1>>,
      <<0, 81, 1, 128, 32, 12, 0, 0>> }

RadioData == { NULL, <<1, 2, 3>> }

\* What the callers of the codec supply
Inputs ==
    [fms_2014 |-> FmsData_2014, robot_2014 |-> RobotData_2014,
     fms_2015 |-> FmsData_2015, robot_2015 |-> RobotData_2015,
     radio |-> RadioData, joysticks |-> JoystickStates, localtime |-> LocalTimes]

\* The same with one datagram that each parser accepts; the 2015 robot's
\* answers differ in the request that switches the date block on and off
CounterInputs ==
    [fms_2014 |-> { NULL, <<0, 0, 32, 82, 49>> },
     robot_2014 |-> { NULL, Pad(<<64, 18, 20>>, 1024) },
     fms_2015 |-> { NULL, Pad(<<0, 0, 0, 6, 0, 0>>, 22) },
     robot_2015 |-> { NULL, <<0, 81, 1, 0, 0, 0, 0, 1>>, <<0, 81, 1, 0, 0, 0, 0, 0>> },
     radio |-> {NULL}, joysticks |-> JoystickStates, localtime |-> LocalTimes]

\* The values a send counter is followed from: zero, the threshold of
\* create_robot_packet (sent_robot_packets > 5), and the last value before
\* the low 16 bits and before the whole unsigned int wrap.
CounterStarts ==
    { ZeroCounter, U32(0, 5), U32(0, Pow2(16) - 1), U32(Pow2(16) - 1, Pow2(16) - 1) }

\* The model follows a counter for MaxSends packets from each start
CanSend(counter) ==
    \E start \in CounterStarts, k \in 0..(MaxSends - 1) : counter = U32_Add(start, k)

(***************************************************************************)
(* The state machine: the scheduler calls one function of the descriptor   *)
(* at a time.                                                              *)
(***************************************************************************)
Call(op, data, ret, packet) == [op |-> op, data |-> data, ret |-> ret, packet |-> packet]

\* The registry as constructed, with what the user and the scheduler's
\* watchdogs set outside the codecs
Config(team, mode, enabled, fms_comms, radio_comms, robot_comms) ==
    [team_number |-> team, control_mode |-> mode, alliance |-> DS_ALLIANCE_RED,
     position |-> DS_POSITION_1, robot_enabled |-> enabled, emergency_stopped |-> FALSE,
     fms_comms |-> fms_comms, radio_comms |-> radio_comms, robot_comms |-> robot_comms,
     robot_code |-> FALSE, robot_voltage |-> 0,
     robot_cpu_usage |-> 0, robot_ram_usage |-> 0, robot_disk_usage |-> 0,
     can_utilization |-> 0]

Statics_2014(counter) ==
    [sent_robot_packets |-> counter, resync |-> 0, reboot |-> 0, restart_code |-> 0]

Statics_2015(robot_counter, fms_counter) ==
    [send_time_data |-> 0, sent_fms_packets |-> fms_counter,
     sent_robot_packets |-> robot_counter, reboot |-> 0, restart_code |-> 0]

\* Any control mode, enabled or not, with the FMS (and its radio) there or
\* not; the 2014 codec never asks whether the robot is there.  The counters
\* as constructed.
Init ==
    /\ protocol \in {2014, 2015}
    /\ \E team \in Teams, mode \in DS_ControlMode, enabled \in BOOLEAN, fms \in BOOLEAN,
          robot \in (IF protocol = 2014 THEN {TRUE} ELSE BOOLEAN) :
           cfg = Config(team, mode, enabled, fms, fms, robot)
    /\ frc_2014 = Statics_2014(ZeroCounter)
    /\ frc_2015 = Statics_2015(ZeroCounter, ZeroCounter)
    /\ out = Call("init", <<>>, 0, <<>>)
    /\ threads = <<>>

\* ---- the 2014 descriptor ----
create_fms_packet_14 ==
    /\ protocol = 2014
    /\ out' = Call("create_fms_packet", <<>>, 0, <<>>)
    /\ UNCHANGED <<protocol, cfg, frc_2014, frc_2015, threads>>

create_radio_packet_14 ==
    /\ protocol = 2014
    /\ out' = Call("create_radio_packet", <<>>, 0, <<>>)
    /\ UNCHANGED <<protocol, cfg, frc_2014, frc_2015, threads>>

\* create_robot_packet, in the thread that calls it
build_robot_packet_14(registry) ==
    /\ protocol = 2014
    /\ CanSend(frc_2014.sent_robot_packets)
    /\ \E js \in registry, psize \in PointerSizes :
           out' = Call("create_robot_packet", <<>>, 0,
                       robot_packet_2014(cfg, js, frc_2014, psize))
    /\ frc_2014' = [frc_2014 EXCEPT !.sent_robot_packets = U32_Inc(@)]
    /\ UNCHANGED <<protocol, cfg, frc_2015>>

create_robot_packet_14(registry) ==
    /\ build_robot_packet_14(registry)
    /\ UNCHANGED threads

read_fms_packet_14(datagrams) ==
    /\ protocol = 2014
    /\ \E data \in datagrams :
           LET r == read_fms_packet_2014(cfg, data)
           IN  /\ out' = Call("read_fms_packet", data, r[1], <<>>)
               /\ cfg' = r[2]
    /\ UNCHANGED <<protocol, frc_2014, frc_2015, threads>>

read_radio_packet_14(datagrams) ==
    /\ protocol = 2014
    /\ \E data \in datagrams :
           LET r == read_radio_packet_2014(cfg, data)
           IN  /\ out' = Call("read_radio_packet", data, r[1], <<>>)
               /\ cfg' = r[2]
    /\ UNCHANGED <<protocol, frc_2014, frc_2015, threads>>

read_robot_packet_14(datagrams) ==
    /\ protocol = 2014
    /\ \E data \in datagrams :
           LET r == read_robot_packet_2014(cfg, data)
           IN  /\ out' = Call("read_robot_packet", data, r[1], <<>>)
               /\ cfg' = r[2]
    /\ UNCHANGED <<protocol, frc_2014, frc_2015, threads>>

reset_fms_14 ==
    /\ protocol = 2014
    /\ out' = Call("reset_fms", <<>>, 0, <<>>)
    /\ UNCHANGED <<protocol, cfg, frc_2014, frc_2015, threads>>

reset_radio_14 ==
    /\ protocol = 2014
    /\ out' = Call("reset_radio", <<>>, 0, <<>>)
    /\ UNCHANGED <<protocol, cfg, frc_2014, frc_2015, threads>>

reset_robot_14 ==
    /\ protocol = 2014
    /\ out' = Call("reset_robot", <<>>, 0, <<>>)
    /\ frc_2014' = reset_robot_2014(frc_2014)
    /\ UNCHANGED <<protocol, cfg, frc_2015, threads>>

reboot_robot_14 ==
    /\ protocol = 2014
    /\ out' = Call("reboot_robot", <<>>, 0, <<>>)
    /\ frc_2014' = reboot_robot_2014(frc_2014)
    /\ UNCHANGED <<protocol, cfg, frc_2015, threads>>

restart_robot_code_14 ==
    /\ protocol = 2014
    /\ out' = Call("restart_robot_code", <<>>, 0, <<>>)
    /\ frc_2014' = restart_robot_code_2014(frc_2014)
    /\ UNCHANGED <<protocol, cfg, frc_2015, threads>>

\* ---- the 2015 descriptor ----
create_fms_packet_15 ==
    /\ protocol = 2015
    /\ CanSend(frc_2015.sent_fms_packets)
    /\ out' = Call("create_fms_packet", <<>>, 0, fms_packet_2015(cfg, frc_2015))
    /\ frc_2015' = [frc_2015 EXCEPT !.sent_fms_packets = U32_Inc(@)]
    /\ UNCHANGED <<protocol, cfg, frc_2014, threads>>

create_radio_packet_15 ==
    /\ protocol = 2015
    /\ out' = Call("create_radio_packet", <<>>, 0, <<>>)
    /\ UNCHANGED <<protocol, cfg, frc_2014, frc_2015, threads>>

\* create_robot_packet, in the thread that calls it
build_robot_packet_15(registry, clock) ==
    /\ protocol = 2015
    /\ CanSend(frc_2015.sent_robot_packets)
    /\ \E js \in registry, tm \in clock :
           out' = Call("create_robot_packet", <<>>, 0,
                       robot_packet_2015(cfg, js, frc_2015, tm))
    /\ frc_2015' = [frc_2015 EXCEPT !.sent_robot_packets = U32_Inc(@)]
    /\ UNCHANGED <<protocol, cfg, frc_2014>>

create_robot_packet_15(registry, clock) ==
    /\ build_robot_packet_15(registry, clock)
    /\ UNCHANGED threads

read_fms_packet_15(datagrams) ==
    /\ protocol = 2015
    /\ \E data \in datagrams :
           LET r == read_fms_packet_2015(cfg, data)
           IN  /\ out' = Call("read_fms_packet", data, r[1], <<>>)
               /\ cfg' = r[2]
    /\ UNCHANGED <<protocol, frc_2014, frc_2015, threads>>

read_radio_packet_15(datagrams) ==
    /\ protocol = 2015
    /\ \E data \in datagrams :
           LET r == read_radio_packet_2015(cfg, data)
           IN  /\ out' = Call("read_radio_packet", data, r[1], <<>>)
               /\ cfg' = r[2]
    /\ UNCHANGED <<protocol, frc_2014, frc_2015, threads>>

read_robot_packet_15(datagrams) ==
    /\ protocol = 2015
    /\ \E data \in datagrams :
           LET r == read_robot_packet_2015(cfg, frc_2015, data)
           IN  /\ out' = Call("read_robot_packet", data, r[1], <<>>)
               /\ cfg' = r[2]
               /\ frc_2015' = r[3]
    /\ UNCHANGED <<protocol, frc_2014, threads>>

reset_fms_15 ==
    /\ protocol = 2015
    /\ out' = Call("reset_fms", <<>>, 0, <<>>)
    /\ UNCHANGED <<protocol, cfg, frc_2014, frc_2015, threads>>

reset_radio_15 ==
    /\ protocol = 2015
    /\ out' = Call("reset_radio", <<>>, 0, <<>>)
    /\ UNCHANGED <<protocol, cfg, frc_2014, frc_2015, threads>>

reset_robot_15 ==
    /\ protocol = 2015
    /\ out' = Call("reset_robot", <<>>, 0, <<>>)
    /\ frc_2015' = reset_robot_2015(frc_2015)
    /\ UNCHANGED <<protocol, cfg, frc_2014, threads>>

reboot_robot_15 ==
    /\ protocol = 2015
    /\ out' = Call("reboot_robot", <<>>, 0, <<>>)
    /\ frc_2015' = reboot_robot_2015(frc_2015)
    /\ UNCHANGED <<protocol, cfg, frc_2014, threads>>

restart_robot_code_15 ==
    /\ protocol = 2015
    /\ out' = Call("restart_robot_code", <<>>, 0, <<>>)
    /\ frc_2015' = restart_robot_code_2015(frc_2015)
    /\ UNCHANGED <<protocol, cfg, frc_2014, threads>>

\* One call of the descriptor's functions, with inputs from I
Machine(I) ==
    \/ create_fms_packet_14 \/ create_radio_packet_14
    \/ create_robot_packet_14(I.joysticks)
    \/ read_fms_packet_14(I.fms_2014) \/ read_radio_packet_14(I.radio)
    \/ read_robot_packet_14(I.robot_2014)
    \/ reset_fms_14 \/ reset_radio_14 \/ reset_robot_14
    \/ reboot_robot_14 \/ restart_robot_code_14
    \/ create_fms_packet_15 \/ create_radio_packet_15
    \/ create_robot_packet_15(I.joysticks, I.localtime)
    \/ read_fms_packet_15(I.fms_2015) \/ read_radio_packet_15(I.radio)
    \/ read_robot_packet_15(I.robot_2015)
    \/ reset_fms_15 \/ reset_radio_15 \/ reset_robot_15
    \/ reboot_robot_15 \/ restart_robot_code_15

Next == Machine(Inputs)

Spec == Init /\ [][Next]_vars

\* The same machine with the counters anywhere a run follows them, for one
\* configuration of the registry.
InitCounters ==
    /\ protocol \in {2014, 2015}
    /\ \E team \in Teams :
           cfg = Config(team, DS_CONTROL_TELEOPERATED, TRUE, FALSE, FALSE, TRUE)
    /\ \E counter \in CounterStarts :
           frc_2014 = Statics_2014(IF protocol = 2014 THEN counter ELSE ZeroCounter)
    /\ \E robot_counter \in CounterStarts, fms_counter \in CounterStarts :
           frc_2015 = IF protocol = 2015 THEN Statics_2015(robot_counter, fms_counter)
                      ELSE Statics_2015(ZeroCounter, ZeroCounter)
    /\ out = Call("init", <<>>, 0, <<>>)
    /\ threads = <<>>

NextCounters == Machine(CounterInputs)

SpecCounters == InitCounters /\ [][NextCounters]_vars

(***************************************************************************)
(* Two scheduler threads in the same packet builder.  Neither file takes a *)
(* lock, so the builder's accesses to its static counter interleave: the   *)
(* two reads that fill bytes 0-1, the rest of the framing, and the load    *)
(* and the store of ++sent_..._packets.                                    *)
(***************************************************************************)
Threads == {1, 2}

\* The builders that count their packets
Builders(codec) ==
    IF codec = 2014 THEN {"create_robot_packet"}
    ELSE {"create_robot_packet", "create_fms_packet"}

\* The static counter of the stream the threads build for
StreamCounter(f14, f15) ==
    IF protocol = 2014 THEN f14.sent_robot_packets
    ELSE IF threads.op = "create_robot_packet" THEN f15.sent_robot_packets
    ELSE f15.sent_fms_packets

Local(pc, hi, lo, tmp, packet) ==
    [pc |-> pc, hi |-> hi, lo |-> lo, tmp |-> tmp, packet |-> packet]

InitThreads ==
    /\ protocol \in {2014, 2015}
    /\ \E team \in Teams :
           cfg = Config(team, DS_CONTROL_TELEOPERATED, TRUE, FALSE, FALSE, TRUE)
    /\ \E counter \in CounterStarts, op \in Builders(protocol) :
           /\ frc_2014 = Statics_2014(IF protocol = 2014 THEN counter ELSE ZeroCounter)
           /\ frc_2015 = IF protocol = 2015 THEN Statics_2015(counter, counter)
                         ELSE Statics_2015(ZeroCounter, ZeroCounter)
           /\ threads = [op |-> op, start |-> counter,
                         th |-> [t \in Threads |-> Local("idle", 0, 0, ZeroCounter, <<>>)]]
    /\ out = Call("init", <<>>, 0, <<>>)

\* The thread calls the builder
thread_call(t) ==
    /\ threads.th[t].pc = "idle"
    /\ threads' = [threads EXCEPT !.th[t].pc = "index_hi"]
    /\ UNCHANGED <<protocol, cfg, frc_2014, frc_2015, out>>

\* data [0] = (sent_robot_packets & 0xff00) >> 8
thread_index_hi(t) ==
    /\ threads.th[t].pc = "index_hi"
    /\ threads' = [threads EXCEPT
                       !.th[t].hi = HighByte(U32_Low16(StreamCounter(frc_2014, frc_2015))),
                       !.th[t].pc = "index_lo"]
    /\ UNCHANGED <<protocol, cfg, frc_2014, frc_2015, out>>

\* data [1] = (sent_robot_packets & 0xff)
thread_index_lo(t) ==
    /\ threads.th[t].pc = "index_lo"
    /\ threads' = [threads EXCEPT
                       !.th[t].lo = LowByte(U32_Low16(StreamCounter(frc_2014, frc_2015))),
                       !.th[t].pc = "frame"]
    /\ UNCHANGED <<protocol, cfg, frc_2014, frc_2015, out>>

\* The rest of the datagram, around the two bytes already written
thread_frame(t, registry, clock) ==
    /\ threads.th[t].pc = "frame"
    /\ LET hi == threads.th[t].hi
           lo == threads.th[t].lo
       IN  \E js \in registry, tm \in clock, psize \in PointerSizes :
               threads' = [threads EXCEPT
                   !.th[t].pc = "load",
                   !.th[t].packet =
                       IF protocol = 2014
                           THEN robot_packet_2014(
                                    cfg, js,
                                    [frc_2014 EXCEPT !.sent_robot_packets = U32(0, hi * 256 + lo)],
                                    psize)
                       ELSE IF threads.op = "create_robot_packet"
                           THEN [robot_packet_2015(cfg, js, frc_2015, tm)
                                     EXCEPT ![1] = hi, ![2] = lo]
                       ELSE [fms_packet_2015(cfg, frc_2015) EXCEPT ![1] = hi, ![2] = lo]]
    /\ UNCHANGED <<protocol, cfg, frc_2014, frc_2015, out>>

\* ++sent_robot_packets, the load
thread_load(t) ==
    /\ threads.th[t].pc = "load"
    /\ threads' = [threads EXCEPT !.th[t].tmp = StreamCounter(frc_2014, frc_2015),
                                  !.th[t].pc = "store"]
    /\ UNCHANGED <<protocol, cfg, frc_2014, frc_2015, out>>

\* ++sent_robot_packets, the store; the builder returns its datagram
thread_store(t) ==
    /\ threads.th[t].pc = "store"
    /\ LET next == U32_Inc(threads.th[t].tmp)
       IN  /\ frc_2014' = IF protocol = 2014
                              THEN [frc_2014 EXCEPT !.sent_robot_packets = next]
                          ELSE frc_2014
           /\ frc_2015' = IF protocol = 2014 THEN frc_2015
                          ELSE IF threads.op = "create_robot_packet"
                              THEN [frc_2015 EXCEPT !.sent_robot_packets = next]
                          ELSE [frc_2015 EXCEPT !.sent_fms_packets = next]
    /\ threads' = [threads EXCEPT !.th[t].pc = "done"]
    /\ out' = Call(threads.op, <<>>, 0, threads.th[t].packet)
    /\ UNCHANGED <<protocol, cfg>>

NextThreads ==
    \E t \in Threads :
        \/ thread_call(t) \/ thread_index_hi(t) \/ thread_index_lo(t)
        \/ thread_frame(t, JoystickStates, LocalTimes)
        \/ thread_load(t) \/ thread_store(t)

SpecThreads == InitThreads /\ [][NextThreads]_vars

(***************************************************************************)
(* One thread in read_fms_packet while another builds robot packets.  The  *)
(* parser writes the registry with one CFG_Set call after the other and no *)
(* lock is held across them, so the builder runs between any two.          *)
(***************************************************************************)
\* The number of statements of read_fms_packet that write the registry
FmsWrites(codec) == IF codec = 2014 THEN 5 ELSE 4

\* The registry after the first k of them
read_fms_packet_upto(c, data, k) ==
    IF protocol = 2014 THEN read_fms_packet_2014_upto(c, data, k)
    ELSE read_fms_packet_2015_upto(c, data, k)

read_fms_packet(c, data) ==
    IF protocol = 2014 THEN read_fms_packet_2014(c, data)
    ELSE read_fms_packet_2015(c, data)

\* What an FMS datagram decides
FmsFields(c) == <<c.robot_enabled, c.control_mode, c.alliance, c.position>>

InitParser ==
    /\ protocol \in {2014, 2015}
    /\ \E team \in Teams, mode \in DS_ControlMode, enabled \in BOOLEAN :
           cfg = Config(team, mode, enabled, TRUE, TRUE, TRUE)
    /\ frc_2014 = Statics_2014(ZeroCounter)
    /\ frc_2015 = Statics_2015(ZeroCounter, ZeroCounter)
    /\ threads = [pc |-> "idle", data |-> <<>>, before |-> cfg, k |-> 0, seen |-> <<>>]
    /\ out = Call("init", <<>>, 0, <<>>)

\* read_fms_packet is called: a datagram that fails its checks is returned
\* at once, any other is about to be applied
parser_call(datagrams) ==
    /\ threads.pc = "idle"
    /\ \E data \in datagrams :
           IF read_fms_packet(cfg, data)[1] = 0
               THEN /\ out' = Call("read_fms_packet", data, 0, <<>>)
                    /\ threads' = [threads EXCEPT !.seen = <<>>]
           ELSE /\ threads' = [pc |-> "writing", data |-> data, before |-> cfg,
                               k |-> 0, seen |-> <<>>]
                /\ out' = out
    /\ UNCHANGED <<protocol, cfg, frc_2014, frc_2015>>

\* The next CFG_Set call of read_fms_packet
parser_write ==
    /\ threads.pc = "writing"
    /\ threads.k < FmsWrites(protocol)
    /\ cfg' = read_fms_packet_upto(threads.before, threads.data, threads.k + 1)
    /\ threads' = [threads EXCEPT !.k = @ + 1]
    /\ UNCHANGED <<protocol, frc_2014, frc_2015, out>>

\* return 1
parser_return ==
    /\ threads.pc = "writing"
    /\ threads.k = FmsWrites(protocol)
    /\ threads' = [threads EXCEPT !.pc = "idle"]
    /\ out' = Call("read_fms_packet", threads.data, 1, <<>>)
    /\ UNCHANGED <<protocol, cfg, frc_2014, frc_2015>>

\* The other thread builds a robot packet from the registry as it is now
builder_runs(registry, clock) ==
    /\ IF protocol = 2014 THEN build_robot_packet_14(registry)
       ELSE build_robot_packet_15(registry, clock)
    /\ threads' = [threads EXCEPT !.seen = FmsFields(cfg)]

NextParser ==
    \/ parser_call(IF protocol = 2014 THEN FmsData_2014 ELSE FmsData_2015)
    \/ parser_write
    \/ parser_return
    \/ builder_runs(JoystickStates, LocalTimes)

SpecParser == InitParser /\ [][NextParser]_vars

(***************************************************************************)
(* One call from any state.  The registry is written by the application    *)
(* and by the scheduler's watchdogs as well as by the parsers, and the     *)
(* counters and flags are wherever earlier calls left them, so a builder   *)
(* can meet any combination of them; a parser can meet any datagram.       *)
(***************************************************************************)
\* Battery voltages in the registry: none read yet, 12 V, 12 + 128/255 V as
\* decode_voltage leaves it, 12.5 V, and the most whole volts a byte holds
Voltages ==
    {0, Volts(12, 0), Volts(12, 128), (25 * VoltageScale) \div 2, Volts(255, 0)}

\* The values the counter runs above pass through
Counters ==
    { U32_Add(start, k) : start \in CounterStarts, k \in 0..(MaxSends - 1) }

\* No call of the descriptor has been made yet
FirstCall == out.op = "init"

\* What create_robot_packet of either codec reads (the station, the FMS
\* link, the e-stop and the statics), or what create_fms_packet of 2015
\* reads (the links to radio and robot, the voltage and its own counter)
InitBuild ==
    /\ protocol \in {2014, 2015}
    /\ \E team \in Teams, mode \in DS_ControlMode, enabled \in BOOLEAN, estop \in BOOLEAN,
          robot \in (IF protocol = 2014 THEN {TRUE} ELSE BOOLEAN) :
           \/ \E fms \in BOOLEAN, alliance \in DS_Alliance, position \in DS_Position,
                 counter \in CounterStarts, resync \in {0, 1}, reboot \in {0, 1},
                 restart_code \in {0, 1} :
                  /\ cfg = [Config(team, mode, enabled, fms, FALSE, robot) EXCEPT
                                !.emergency_stopped = estop,
                                !.alliance = alliance, !.position = position]
                  /\ frc_2014 = IF protocol = 2014
                                    THEN [Statics_2014(counter) EXCEPT
                                              !.resync = resync, !.reboot = reboot,
                                              !.restart_code = restart_code]
                                ELSE Statics_2014(ZeroCounter)
                  /\ frc_2015 = IF protocol = 2015
                                    THEN [Statics_2015(counter, ZeroCounter) EXCEPT
                                              !.send_time_data = resync, !.reboot = reboot,
                                              !.restart_code = restart_code]
                                ELSE Statics_2015(ZeroCounter, ZeroCounter)
           \/ \E radio \in BOOLEAN, voltage \in Voltages, counter \in Counters :
                  /\ protocol = 2015
                  /\ cfg = [Config(team, mode, enabled, FALSE, radio, robot) EXCEPT
                                !.emergency_stopped = estop, !.robot_voltage = voltage]
                  /\ frc_2014 = Statics_2014(ZeroCounter)
                  /\ frc_2015 = Statics_2015(ZeroCounter, counter)
    /\ out = Call("init", <<>>, 0, <<>>)
    /\ threads = <<>>

\* The builders, the reset hooks and the one-shot commands of both descriptors
NextBuild ==
    \/ FirstCall /\ create_fms_packet_14
    \/ FirstCall /\ create_radio_packet_14
    \/ FirstCall /\ create_robot_packet_14(JoystickStates)
    \/ FirstCall /\ reset_fms_14
    \/ FirstCall /\ reset_radio_14
    \/ FirstCall /\ reset_robot_14
    \/ FirstCall /\ reboot_robot_14
    \/ FirstCall /\ restart_robot_code_14
    \/ FirstCall /\ create_fms_packet_15
    \/ FirstCall /\ create_radio_packet_15
    \/ FirstCall /\ create_robot_packet_15(JoystickStates, LocalTimes)
    \/ FirstCall /\ reset_fms_15
    \/ FirstCall /\ reset_radio_15
    \/ FirstCall /\ reset_robot_15
    \/ FirstCall /\ reboot_robot_15
    \/ FirstCall /\ restart_robot_code_15

SpecBuild == InitBuild /\ [][NextBuild]_vars

\* 2014 FMS datagrams: every mix of the bits of the two mode masks and the
\* enable bit that tells the cases of read_fms_packet apart, with known and
\* unknown alliance and position characters; one datagram short of the floor
FmsDatagrams_2014 ==
    { NULL, <<0, 0, 67, 82>> } \cup
    { <<0, 0, robotmod, alliance, position>> :
          robotmod \in {0, 16, 32, 48, 67, 83, 99},
          alliance \in {82, 66, 0}, position \in {49, 50, 51, 0} }

\* 2014 robot datagrams: <<e-stop, voltage upper, voltage lower>> and zeros
RobotDatagrams_2014 ==
    { NULL, Pad(<<0, 18, 20>>, 1023) } \cup
    { Pad(<<estop, upper, lower>>, 1024) :
          estop \in {0, 64}, upper \in {0, 18, 255}, lower \in {0, 20, 255} }

\* 2015 FMS datagrams: every mix of the enable and mode bits in byte 3, and
\* the six stations and two unknown ones in byte 5
FmsDatagrams_2015 ==
    { NULL, Pad(<<0, 0, 0, 6, 0, 4>>, 21) } \cup
    { Pad(<<0, 0, 0, control, 0, station>>, 22) :
          control \in 0..7, station \in {0, 1, 2, 3, 4, 5, 6, 255} }

\* 2015 robot datagrams: <<_, _, _, control, status, upper, lower, request>>,
\* and extended ones that go on with <<size, tag, value>>, whole or cut
\* short, for the four telemetry tags and two others
RobotDatagrams_2015 ==
    { NULL, <<0, 81, 1, 0, 49, 0>>, <<0, 81, 1, 0, 49, 0, 1>> } \cup
    { <<0, 81, 1, control, rstatus, upper, lower, request>> :
          control \in {0, 128}, rstatus \in {0, 32, 49}, upper \in {0, 12},
          lower \in {0, 1}, request \in {0, 1} } \cup
    { SubSeq(<<0, 81, 1, 128, 49, 12, 0, 0, 2, tag, 77>>, 1, n) :
          tag \in {14, 5, 6, 4, 0, 12}, n \in 9..11 }

\* Any control mode, enabled or not, e-stopped or not, at either end of the
\* field, with or without a date request pending
InitParse ==
    /\ protocol \in {2014, 2015}
    /\ \E team \in Teams, mode \in DS_ControlMode, enabled \in BOOLEAN, estop \in BOOLEAN,
          far \in BOOLEAN, send_time_data \in {0, 1} :
           /\ cfg = [Config(team, mode, enabled, TRUE, TRUE, TRUE) EXCEPT
                         !.emergency_stopped = estop,
                         !.alliance = IF far THEN DS_ALLIANCE_BLUE ELSE DS_ALLIANCE_RED,
                         !.position = IF far THEN DS_POSITION_3 ELSE DS_POSITION_1]
           /\ frc_2015 = [Statics_2015(ZeroCounter, ZeroCounter) EXCEPT
                              !.send_time_data =
                                  IF protocol = 2015 THEN send_time_data ELSE 0]
    /\ frc_2014 = Statics_2014(ZeroCounter)
    /\ out = Call("init", <<>>, 0, <<>>)
    /\ threads = <<>>

\* The parsers of both descriptors
NextParse ==
    \/ FirstCall /\ read_fms_packet_14(FmsDatagrams_2014)
    \/ FirstCall /\ read_radio_packet_14(RadioData)
    \/ FirstCall /\ read_robot_packet_14(RobotDatagrams_2014)
    \/ FirstCall /\ read_fms_packet_15(FmsDatagrams_2015)
    \/ FirstCall /\ read_radio_packet_15(RadioData)
    \/ FirstCall /\ read_robot_packet_15(RobotDatagrams_2015)

SpecParse == InitParse /\ [][NextParse]_vars

(***************************************************************************)
(* The station of 2015 on its way in and out: read_fms_packet stores the   *)
(* alliance and position of the station byte, create_robot_packet sends    *)
(* the station byte of the alliance and position stored.                   *)
(***************************************************************************)
\* FMS datagrams for the six stations and for a byte that is none, with the
\* robot enabled or not
StationDatagrams ==
    { NULL } \cup
    { Pad(<<0, 0, 0, control, 0, station>>, 22) : control \in {0, 4}, station \in 0..6 }

\* The user has chosen any of the six stations
InitStation ==
    /\ protocol = 2015
    /\ \E team \in Teams, alliance \in DS_Alliance, position \in DS_Position :
           cfg = [Config(team, DS_CONTROL_TELEOPERATED, FALSE, TRUE, TRUE, TRUE) EXCEPT
                      !.alliance = alliance, !.position = position]
    /\ frc_2014 = Statics_2014(ZeroCounter)
    /\ frc_2015 = Statics_2015(ZeroCounter, ZeroCounter)
    /\ out = Call("init", <<>>, 0, <<>>)
    /\ threads = <<>>

NextStation ==
    \/ read_fms_packet_15(StationDatagrams)
    \/ create_robot_packet_15({<<>>}, LocalTimes)

SpecStation == InitStation /\ [][NextStation]_vars

(***************************************************************************)
(* The properties                                                          *)
(***************************************************************************)
\* The step is a call of op of the given codec (out' records the call made)
Called(codec, op) == protocol = codec /\ out'.op = op

\* The control byte of the 2014 robot packet as the specification words it
ControlByte_2014 ==
    IF frc_2014.reboot # 0 THEN 128
    ELSE IF cfg.emergency_stopped THEN 0
    ELSE 64
         + (CASE cfg.control_mode = DS_CONTROL_TEST -> 2
              [] cfg.control_mode = DS_CONTROL_AUTONOMOUS -> 16
              [] cfg.control_mode = DS_CONTROL_TELEOPERATED -> 0)
         + (IF cfg.robot_enabled THEN 32 ELSE 0)
         + (IF frc_2014.resync # 0 THEN 4 ELSE 0)
         + (IF cfg.fms_comms THEN 8 ELSE 0)

\* C1: byte 2 of every 2014 robot packet is 0x80 if a reboot is pending,
\* otherwise 0x00 if emergency-stopped, otherwise 0x40 with the mode bits,
\* 0x20 if enabled, 0x04 if a resync is pending and 0x08 if the FMS is there.
C1_ControlBytePrecedence ==
    [][Called(2014, "create_robot_packet") => out'.packet[3] = ControlByte_2014]_vars

\* A 2014 robot packet built with a reboot pending and the e-stop on carries 0x80
C1_RebootOverEstop ==
    /\ protocol = 2014 /\ out.op = "create_robot_packet"
    /\ frc_2014.reboot = 1 /\ cfg.emergency_stopped
    /\ out.packet[3] = 128

\* The length below which each parser rejects a datagram
Floor(codec, op) ==
    CASE codec = 2014 /\ op = "read_fms_packet" -> 5
      [] codec = 2014 /\ op = "read_robot_packet" -> 1024
      [] codec = 2015 /\ op = "read_fms_packet" -> 22
      [] codec = 2015 /\ op = "read_robot_packet" -> 7

\* C2: each of the four parsers, given a null datagram or one shorter than
\* its floor, returns 0 and leaves the configuration and the codec's state
\* (2015 send_time_data included) as they were.
C2_ShortDatagramRejected ==
    [][(/\ out'.op \in {"read_fms_packet", "read_robot_packet"}
        /\ (out'.data = NULL \/ Len(out'.data) < Floor(protocol, out'.op)))
       => (/\ out'.ret = 0
           /\ cfg' = cfg /\ frc_2014' = frc_2014 /\ frc_2015' = frc_2015)]_vars

\* The 2015 robot parser has rejected a 6-byte datagram that reports an
\* e-stop and asks for nothing, with the date request still pending
C2_ShortRobotDatagram ==
    /\ protocol = 2015 /\ out.op = "read_robot_packet"
    /\ out.data # NULL /\ Len(out.data) = 6 /\ out.data[4] = 128
    /\ out.ret = 0
    /\ ~cfg.emergency_stopped /\ frc_2015.send_time_data = 1

\* C3: every robot packet built while a reboot (respectively a code restart)
\* is pending, that is between the command and the next reset_robot,
\* differs from the packet built from the same configuration with that flag
\* clear; the 2015 request byte is 0x08 for a reboot and 0x04 for a restart.
C3_OneShotVisible ==
    [][/\ Called(2014, "create_robot_packet") =>
              \A js \in JoystickStates, psize \in PointerSizes :
                  out'.packet = robot_packet_2014(cfg, js, frc_2014, psize) =>
                      /\ frc_2014.reboot # 0 =>
                             out'.packet # robot_packet_2014(
                                 cfg, js, [frc_2014 EXCEPT !.reboot = 0], psize)
                      /\ frc_2014.restart_code # 0 =>
                             out'.packet # robot_packet_2014(
                                 cfg, js, [frc_2014 EXCEPT !.restart_code = 0], psize)
       /\ Called(2015, "create_robot_packet") =>
              \A js \in JoystickStates, tm \in LocalTimes :
                  out'.packet = robot_packet_2015(cfg, js, frc_2015, tm) =>
                      /\ frc_2015.reboot # 0 =>
                             /\ out'.packet[5] = 8
                             /\ out'.packet # robot_packet_2015(
                                    cfg, js, [frc_2015 EXCEPT !.reboot = 0], tm)
                      /\ frc_2015.restart_code # 0 =>
                             /\ frc_2015.reboot = 0 => out'.packet[5] = 4
                             /\ out'.packet # robot_packet_2015(
                                    cfg, js, [frc_2015 EXCEPT !.restart_code = 0], tm)
      ]_vars

\* The e-stop state an accepted robot datagram reports
ReportsEstop(codec, data) ==
    IF codec = 2014 THEN data[1] = 0 ELSE data[4] >= 128

C6_EstopImpliesNotEnabled ==
    [][(out'.op = "create_robot_packet" /\ cfg.emergency_stopped) =>
           IF protocol = 2014 THEN BitAnd(out'.packet[3], 32) = 0
           ELSE BitAnd(out'.packet[4], 4) = 0]_vars

\* The pending flags of the codec in use
PendingFlags(f14, f15) ==
    IF protocol = 2014 THEN <<f14.reboot, f14.restart_code, f14.resync>>
    ELSE <<f15.reboot, f15.restart_code>>

\* C7: no packet builder and no parser changes reboot, restart_code or (2014)
\* resync, and reboot and restart_code go from set to clear only in a call
\* of reset_robot.
C7_PendingFlagsFrame ==
    [][/\ out'.op \in {"create_fms_packet", "create_radio_packet", "create_robot_packet",
                       "read_fms_packet", "read_radio_packet", "read_robot_packet"}
            => PendingFlags(frc_2014', frc_2015') = PendingFlags(frc_2014, frc_2015)
       /\ (\E i \in 1..2 : /\ PendingFlags(frc_2014, frc_2015)[i] # 0
                           /\ PendingFlags(frc_2014', frc_2015')[i] = 0)
            => out'.op = "reset_robot"]_vars

\* A 2015 robot packet has been built and both one-shots are still pending
C7_PendingAfterEmission ==
    /\ protocol = 2015 /\ out.op = "create_robot_packet"
    /\ frc_2015.reboot = 1 /\ frc_2015.restart_code = 1

\* The counter a packet carries in bytes 0-1, big-endian
CarriedCounter(packet) == packet[1] * 256 + packet[2]

\* One outbound stream: a packet built by op of codec carries the low 16
\* bits of the stream's counter and advances them by one modulo 2^16; any
\* other call leaves the counter (before, after) as it is.
StreamCounts(codec, op, before, after) ==
    IF Called(codec, op)
        THEN /\ CarriedCounter(out'.packet) = before[2]
             /\ after[2] = (before[2] + 1) % 65536
    ELSE after = before

\* C4: in each outbound stream (2014 robot, 2015 robot, 2015 FMS) every
\* packet carries in bytes 0-1 the counter of the previous packet of the
\* stream plus one modulo 2^16, and no other operation changes the counter.
C4_CounterAdvancesByOne ==
    [][/\ StreamCounts(2014, "create_robot_packet",
                       frc_2014.sent_robot_packets, frc_2014'.sent_robot_packets)
       /\ StreamCounts(2015, "create_robot_packet",
                       frc_2015.sent_robot_packets, frc_2015'.sent_robot_packets)
       /\ StreamCounts(2015, "create_fms_packet",
                       frc_2015.sent_fms_packets, frc_2015'.sent_fms_packets)]_vars

\* A 2015 FMS packet carries 0xffff and the stream's next counter is 0 again
C4_WrapsAtSixteenBits ==
    /\ protocol = 2015 /\ out.op = "create_fms_packet"
    /\ CarriedCounter(out.packet) = 65535
    /\ frc_2015.sent_fms_packets[2] = 0

\* The tagged sections of a 2015 robot packet from byte i on (counted from
\* 1): the date section is 10 bytes, the timezone section 2 bytes and the
\* name, a joystick section as many bytes as its first byte says.
RECURSIVE Sections(_, _)
Sections(packet, i) ==
    IF i + 1 > Len(packet) THEN {}
    ELSE IF packet[i + 1] = 15 THEN {"date"} \cup Sections(packet, i + 10)
    ELSE IF packet[i + 1] = 16 THEN {"timezone"} \cup Sections(packet, i + 2 + packet[i])
    ELSE IF packet[i + 1] = 12 /\ packet[i] > 0
        THEN {"joystick"} \cup Sections(packet, i + packet[i])
    ELSE {"unknown"}

HasTimezoneBlock(packet) == {"date", "timezone"} \subseteq Sections(packet, 7)

HasJoystickBlock(packet) == "joystick" \in Sections(packet, 7)

\* C8 (as amended): a 2015 robot packet has after its 6-byte header at most
\* one of the two blocks: the timezone block exactly when send_time_data is
\* set, the joystick block (one section for each registered joystick)
\* exactly when send_time_data is clear and the counter at framing time is
\* above 5; otherwise it is the bare header.
C8_AtMostOneBlock ==
    [][Called(2015, "create_robot_packet") =>
           /\ Sections(out'.packet, 7) \subseteq {"date", "timezone", "joystick"}
           /\ ~(HasTimezoneBlock(out'.packet) /\ HasJoystickBlock(out'.packet))
           /\ HasTimezoneBlock(out'.packet) <=> frc_2015.send_time_data # 0
           /\ \A js \in JoystickStates, tm \in LocalTimes :
                  out'.packet = robot_packet_2015(cfg, js, frc_2015, tm) =>
                      (HasJoystickBlock(out'.packet) <=>
                           /\ frc_2015.send_time_data = 0
                           /\ frc_2015.sent_robot_packets \notin {U32(0, k) : k \in 0..5}
                           /\ js # <<>>)
           /\ (frc_2015.send_time_data = 0
                 /\ frc_2015.sent_robot_packets \in {U32(0, k) : k \in 0..5})
                  => Len(out'.packet) = 6]_vars

\* C8 (as written): every 2015 robot packet (here: framed with joysticks
\* registered) has exactly one of the two blocks, the timezone block exactly
\* when send_time_data is set.
C8_ExactlyOneBlock ==
    [][(/\ Called(2015, "create_robot_packet")
        /\ \E js \in JoystickStates \ {<<>>}, tm \in LocalTimes :
               out'.packet = robot_packet_2015(cfg, js, frc_2015, tm))
       => /\ HasTimezoneBlock(out'.packet) # HasJoystickBlock(out'.packet)
          /\ HasTimezoneBlock(out'.packet) <=> frc_2015.send_time_data # 0]_vars

\* The 2015 robot packet framed with the counter at 5 and no date wanted is
\* the bare header
C8_BareHeaderAtFive ==
    /\ protocol = 2015 /\ out.op = "create_robot_packet"
    /\ frc_2015.send_time_data = 0 /\ frc_2015.sent_robot_packets = U32(0, 6)
    /\ Len(out.packet) = 6

\* C9: two threads in the same builder are serialized: once both have
\* returned, their two packets carry different counters and the stream's
\* counter is two above where it started.
C9_BuildersSerialized ==
    (\A t \in Threads : threads.th[t].pc = "done") =>
        /\ CarriedCounter(threads.th[1].packet) # CarriedCounter(threads.th[2].packet)
        /\ StreamCounter(frc_2014, frc_2015) = U32_Add(threads.start, 2)

\* C10: what a packet builder running while read_fms_packet applies a
\* datagram finds in the registry is what was there before the datagram or
\* what is there after all of it: robot_enabled, control_mode, alliance and
\* position change together.
C10_FmsUpdateAtomic ==
    (threads.pc = "writing" /\ threads.seen # <<>>) =>
        threads.seen \in { FmsFields(threads.before),
                           FmsFields(read_fms_packet(threads.before, threads.data)[2]) }

(***************************************************************************)
(* C11: every 2014 robot packet is 1024 bytes long: the counter's low 16   *)
(* bits big-endian, the control byte, 0x00, the team number big-endian,    *)
(* the alliance character ('R' or 'B'), the position character ('1', '2'   *)
(* or '3'); then the 32-byte joystick block and zeros up to byte 72, where *)
(* the version string "04011600" stands whatever the joysticks hold.  The  *)
(* first packet of team 3794 at red 1, enabled in teleoperated mode with   *)
(* nothing else going on, starts 00 00 60 00 0E D2 52 31.                  *)
(***************************************************************************)
C11_RobotPacketLayout ==
    [][Called(2014, "create_robot_packet") =>
        LET p == out'.packet
            counter == U32_Low16(frc_2014.sent_robot_packets)
        IN  /\ Len(p) = 1024
            /\ p[1] = counter \div 256 /\ p[2] = counter % 256
            /\ p[3] = get_control_code_2014(cfg, frc_2014)
            /\ p[4] = 0
            /\ p[5] = cfg.team_number \div 256 /\ p[6] = cfg.team_number % 256
            /\ p[7] = (IF cfg.alliance = DS_ALLIANCE_RED THEN 82 ELSE 66)
            /\ p[8] = (CASE cfg.position = DS_POSITION_1 -> 49
                         [] cfg.position = DS_POSITION_2 -> 50
                         [] cfg.position = DS_POSITION_3 -> 51)
            /\ \E js \in JoystickStates :
                   /\ Len(get_joystick_data_2014(js)) = 32
                   /\ SubSeq(p, 9, 40) = get_joystick_data_2014(js)
            /\ SubSeq(p, 41, 72) = Zeros(32)
            /\ SubSeq(p, 73, 80) = <<48, 52, 48, 49, 49, 54, 48, 48>>
            /\ (/\ cfg.team_number = 3794
                /\ cfg.alliance = DS_ALLIANCE_RED /\ cfg.position = DS_POSITION_1
                /\ cfg.robot_enabled /\ cfg.control_mode = DS_CONTROL_TELEOPERATED
                /\ ~cfg.emergency_stopped /\ ~cfg.fms_comms
                /\ frc_2014 = Statics_2014(ZeroCounter))
               => SubSeq(p, 1, 8) = <<0, 0, 96, 0, 14, 210, 82, 49>>]_vars

\* A first packet of team 3794 at red 1, enabled in teleoperated mode, was
\* built from a registry with joysticks in it
C11_IdleTeleopPacket ==
    /\ protocol = 2014 /\ out.op = "create_robot_packet"
    /\ SubSeq(out.packet, 1, 8) = <<0, 0, 96, 0, 14, 210, 82, 49>>
    /\ SubSeq(out.packet, 9, 40) # Zeros(32)
    /\ frc_2014.sent_robot_packets = U32(0, 1)

(***************************************************************************)
(* C12: every 2015 robot packet has at least 6 bytes: the robot send       *)
(* counter's low 16 bits at frame time big-endian, 0x01, the control byte  *)
(* (Test 0x01, Autonomous 0x02, Teleoperated 0x00, with 0x08 for the FMS   *)
(* link, 0x80 for the e-stop and 0x04 for enabled), the request byte and   *)
(* the station byte.  At counter 0, team 3794 at red 1, enabled in         *)
(* teleoperated mode with the robot there and nothing else going on, the   *)
(* packet is the 6 bytes 00 00 01 04 80 00.                                *)
(***************************************************************************)
C12_RobotHeader ==
    [][Called(2015, "create_robot_packet") =>
        LET p == out'.packet
            counter == U32_Low16(frc_2015.sent_robot_packets)
        IN  /\ Len(p) >= 6
            /\ p[1] = counter \div 256 /\ p[2] = counter % 256
            /\ p[3] = 1
            /\ p[4] = (CASE cfg.control_mode = DS_CONTROL_TEST -> 1
                         [] cfg.control_mode = DS_CONTROL_AUTONOMOUS -> 2
                         [] cfg.control_mode = DS_CONTROL_TELEOPERATED -> 0)
                      + (IF cfg.fms_comms THEN 8 ELSE 0)
                      + (IF cfg.emergency_stopped THEN 128 ELSE 0)
                      + (IF cfg.robot_enabled THEN 4 ELSE 0)
            /\ p[5] = get_request_code_2015(cfg, frc_2015)
            /\ p[6] = get_station_code_2015(cfg)
            /\ (/\ cfg.team_number = 3794
                /\ cfg.alliance = DS_ALLIANCE_RED /\ cfg.position = DS_POSITION_1
                /\ cfg.robot_enabled /\ cfg.control_mode = DS_CONTROL_TELEOPERATED
                /\ cfg.robot_comms /\ ~cfg.fms_comms /\ ~cfg.emergency_stopped
                /\ frc_2015 = Statics_2015(ZeroCounter, ZeroCounter))
               => p = <<0, 0, 1, 4, 128, 0>>]_vars

\* The first packet of an enabled teleoperated robot at red 1 was built
C12_IdleTeleopHeader ==
    /\ protocol = 2015 /\ out.op = "create_robot_packet"
    /\ out.packet = <<0, 0, 1, 4, 128, 0>>
    /\ frc_2015.sent_robot_packets = U32(0, 1)

(***************************************************************************)
(* C13: byte 4 of a 2015 robot packet is the request byte.  With the robot *)
(* there it is 0x08 when a reboot is pending, 0x04 when (only) a code      *)
(* restart is pending and 0x80 when nothing is; with the robot away it is  *)
(* 0x00 whatever is pending.  Building the packet leaves the pending flags *)
(* as they are, and of the builders, reset hooks and commands only         *)
(* reset_robot takes one back, so the command is in the first packet built *)
(* once the robot is there again.                                          *)
(***************************************************************************)
C13_RequestByte ==
    [][protocol = 2015 =>
        /\ out'.op = "create_robot_packet" =>
              /\ out'.packet[5] =
                     (IF ~cfg.robot_comms THEN 0
                      ELSE IF frc_2015.reboot = 1 THEN 8
                      ELSE IF frc_2015.restart_code = 1 THEN 4
                      ELSE 128)
              /\ frc_2015'.reboot = frc_2015.reboot
              /\ frc_2015'.restart_code = frc_2015.restart_code
        /\ out'.op # "reset_robot" =>
              /\ frc_2015.reboot = 1 => frc_2015'.reboot = 1
              /\ frc_2015.restart_code = 1 => frc_2015'.restart_code = 1]_vars

\* A packet went out as unconnected while a reboot was pending, and the
\* reboot is still pending
C13_UnconnectedKeepsReboot ==
    /\ protocol = 2015 /\ out.op = "create_robot_packet"
    /\ ~cfg.robot_comms /\ out.packet[5] = 0
    /\ frc_2015.reboot = 1

(***************************************************************************)
(* C14: create_fms_packet of 2015 returns 8 bytes: the FMS counter's low   *)
(* 16 bits big-endian, 0x00, the FMS-direction control byte, the team      *)
(* number big-endian, the whole volts of the battery voltage and the       *)
(* hundredths of its fraction (12.5 V: 0x0C 0x32).                         *)
(***************************************************************************)
C14_FmsPacketLayout ==
    [][Called(2015, "create_fms_packet") =>
        LET p == out'.packet
            counter == U32_Low16(frc_2015.sent_fms_packets)
            whole == cfg.robot_voltage \div VoltageScale
            fraction == cfg.robot_voltage - whole * VoltageScale
        IN  /\ Len(p) = 8
            /\ p[1] = counter \div 256 /\ p[2] = counter % 256
            /\ p[3] = 0
            /\ p[4] = fms_control_code_2015(cfg)
            /\ p[5] = cfg.team_number \div 256 /\ p[6] = cfg.team_number % 256
            /\ p[7] = whole
            /\ p[8] = (fraction * 100) \div VoltageScale]_vars

C17_FmsModePrecedence ==
    [][Called(2015, "read_fms_packet") /\ out'.ret = 1 =>
        LET control == out'.data[4]
            station == out'.data[6]
            bit(k) == (control \div k) % 2 = 1
        IN  /\ Len(out'.data) >= 22
            /\ cfg'.control_mode =
                   (IF bit(2) THEN DS_CONTROL_AUTONOMOUS
                    ELSE IF bit(1) THEN DS_CONTROL_TEST
                    ELSE cfg.control_mode)
            /\ cfg'.robot_enabled = bit(4)
            /\ cfg'.alliance =
                   (IF station \in {3, 4, 5} THEN DS_ALLIANCE_BLUE ELSE DS_ALLIANCE_RED)
            /\ cfg'.position =
                   (IF station \in {1, 4} THEN DS_POSITION_2
                    ELSE IF station \in {2, 5} THEN DS_POSITION_3
                    ELSE DS_POSITION_1)]_vars

\* A datagram with the enable, Autonomous and Test bits all set was read
\* for station blue 3
C17_AutonomousOverTest ==
    /\ protocol = 2015 /\ out.op = "read_fms_packet" /\ out.ret = 1
    /\ out.data[4] = 7 /\ out.data[6] = 5
    /\ cfg.control_mode = DS_CONTROL_AUTONOMOUS /\ cfg.robot_enabled
    /\ cfg.alliance = DS_ALLIANCE_BLUE /\ cfg.position = DS_POSITION_3

(***************************************************************************)
(* C18: when read_fms_packet of 2014 accepts a datagram (5 bytes or more), *)
(* the control mode becomes Autonomous whenever byte 2 has a bit of mask   *)
(* 0x53 and Teleoperated whenever it has a bit of mask 0x43; robot_enabled *)
(* becomes (byte 2 & 0x20) != 0, the alliance is Red iff byte 3 is 'R'     *)
(* and Blue otherwise, and the position is 1, 2 or 3 for byte 4 = '1',     *)
(* '2' or '3'.                                                             *)
(***************************************************************************)
C18_FmsModeAsStated ==
    [][Called(2014, "read_fms_packet") /\ out'.ret = 1 =>
        LET d == out'.data
        IN  /\ Len(d) >= 5
            /\ BitAnd(d[3], 83) # 0 => cfg'.control_mode = DS_CONTROL_AUTONOMOUS
            /\ BitAnd(d[3], 67) # 0 => cfg'.control_mode = DS_CONTROL_TELEOPERATED
            /\ cfg'.robot_enabled = (BitAnd(d[3], 32) # 0)
            /\ cfg'.alliance = (IF d[4] = 82 THEN DS_ALLIANCE_RED ELSE DS_ALLIANCE_BLUE)
            /\ d[5] = 49 => cfg'.position = DS_POSITION_1
            /\ d[5] = 50 => cfg'.position = DS_POSITION_2
            /\ d[5] = 51 => cfg'.position = DS_POSITION_3]_vars

(***************************************************************************)
(* C19: the watchdog hooks.  reset_robot of 2014 sets resync and clears    *)
(* reboot and restart_code; reset_robot of 2015 clears reboot,             *)
(* restart_code and send_time_data; reset_fms and reset_radio of both      *)
(* codecs change nothing; no hook changes a send counter or a field of the *)
(* configuration.                                                          *)
(***************************************************************************)
C19_ResetHooks ==
    [][out'.op \in {"reset_fms", "reset_radio", "reset_robot"} =>
        /\ cfg' = cfg
        /\ frc_2014'.sent_robot_packets = frc_2014.sent_robot_packets
        /\ frc_2015'.sent_robot_packets = frc_2015.sent_robot_packets
        /\ frc_2015'.sent_fms_packets = frc_2015.sent_fms_packets
        /\ out'.op # "reset_robot" => (frc_2014' = frc_2014 /\ frc_2015' = frc_2015)
        /\ Called(2014, "reset_robot") =>
               /\ frc_2014'.resync = 1 /\ frc_2014'.reboot = 0
               /\ frc_2014'.restart_code = 0
               /\ frc_2015' = frc_2015
        /\ Called(2015, "reset_robot") =>
               /\ frc_2015'.reboot = 0 /\ frc_2015'.restart_code = 0
               /\ frc_2015'.send_time_data = 0
               /\ frc_2014' = frc_2014]_vars

\* The robot watchdog of 2015 has expired with an e-stopped, enabled robot
\* and a counter that had passed 2^16 - 1 packets
C19_RobotWatchdogExpired ==
    /\ protocol = 2015 /\ out.op = "reset_robot"
    /\ frc_2015.reboot = 0 /\ frc_2015.restart_code = 0 /\ frc_2015.send_time_data = 0
    /\ frc_2015.sent_robot_packets = U32(0, Pow2(16) - 1)
    /\ cfg.emergency_stopped /\ cfg.robot_enabled

(***************************************************************************)
(* C20: the station byte of 2015 survives the round trip.  For each of the *)
(* six station bytes 0x00..0x05, get_station_code of the alliance and      *)
(* position that get_alliance and get_position decode from it is the byte  *)
(* again: the robot packet built after an FMS datagram with that station   *)
(* carries it in byte 5.  For each of the six pairs of alliance and        *)
(* position, decoding the station byte of the pair gives the pair again:   *)
(* an FMS datagram carrying byte 5 of the last robot packet leaves         *)
(* alliance and position as they are.                                      *)
(***************************************************************************)
C20_StationRoundTrip ==
    [][/\ \A b \in 0..5 :
              get_station_code_2015([alliance |-> get_alliance_2015(b),
                                     position |-> get_position_2015(b)]) = b
       /\ Called(2015, "read_fms_packet") /\ out'.ret = 1 /\ out'.data[6] \in 0..5
              => get_station_code_2015(cfg') = out'.data[6]
       /\ Called(2015, "create_robot_packet") =>
              /\ get_alliance_2015(out'.packet[6]) = cfg.alliance
              /\ get_position_2015(out'.packet[6]) = cfg.position
              /\ out.op = "read_fms_packet" /\ out.ret = 1 /\ out.data[6] \in 0..5
                     => out'.packet[6] = out.data[6]
       /\ (/\ Called(2015, "read_fms_packet") /\ out'.ret = 1
           /\ out.op = "create_robot_packet" /\ out'.data[6] = out.packet[6])
              => cfg'.alliance = cfg.alliance /\ cfg'.position = cfg.position]_vars

\* A robot packet for station blue 3 (0x05) was built after an FMS datagram
\* had enabled the robot
C20_BlueThreeSentBack ==
    /\ protocol = 2015 /\ out.op = "create_robot_packet"
    /\ out.packet[6] = 5 /\ cfg.robot_enabled
    /\ cfg.alliance = DS_ALLIANCE_BLUE /\ cfg.position = DS_POSITION_3

(***************************************************************************)
(* C21: the 2015 voltage round trip for whole volts.  For a whole voltage  *)
(* v in 0..255 encode_voltage gives (upper, lower) = (v, 0), the bytes     *)
(* create_fms_packet sends, and decode_voltage of the two is v again.      *)
(***************************************************************************)
C21_WholeVoltsRoundTrip ==
    [][Called(2015, "create_fms_packet") /\ cfg.robot_voltage % VoltageScale = 0 =>
        LET v == cfg.robot_voltage \div VoltageScale
            upper == out'.packet[7]
            lower == out'.packet[8]
        IN  /\ v \in 0..255
            /\ upper = v /\ lower = 0
            /\ encode_voltage(cfg.robot_voltage) = <<v, 0>>
            /\ decode_voltage(upper, lower) = cfg.robot_voltage]_vars

\* An FMS packet was built with 255 V in the registry
C21_FullByteOfVolts ==
    /\ protocol = 2015 /\ out.op = "create_fms_packet"
    /\ cfg.robot_voltage = 255 * VoltageScale
    /\ out.packet[7] = 255 /\ out.packet[8] = 0

(***************************************************************************)
(* C24: for a voltage v in [0, 256) encode_voltage gives upper = floor(v)  *)
(* and lower = (v - floor(v)) x 100 cut to 8 bits, and these are the last  *)
(* two bytes create_fms_packet sends (12.5 V: upper 12, lower 50).         *)
(***************************************************************************)
C24_VoltageEncoded ==
    [][Called(2015, "create_fms_packet") =>
        LET floor == cfg.robot_voltage \div VoltageScale
            hundredths == ((cfg.robot_voltage - floor * VoltageScale) * 100) \div VoltageScale
        IN  /\ encode_voltage(cfg.robot_voltage) = <<floor, hundredths % 256>>
            /\ out'.packet[7] = floor
            /\ out'.packet[8] = hundredths % 256
            /\ cfg.robot_voltage = (25 * VoltageScale) \div 2
                   => (out'.packet[7] = 12 /\ out'.packet[8] = 50)]_vars

\* The four telemetry fields of the registry
Telemetry(c) ==
    <<c.can_utilization, c.robot_cpu_usage, c.robot_ram_usage, c.robot_disk_usage>>

(***************************************************************************)
(* C22: the extended telemetry of 2015.  For an accepted robot datagram    *)
(* longer than 9 bytes the tag at index 9 selects one update: 0x0e sets    *)
(* can_utilization to data[10] (the terminating zero of a datagram of 10   *)
(* bytes), 0x05 robot_cpu_usage to data[3], 0x06 robot_ram_usage to        *)
(* data[4], 0x04 robot_disk_usage to data[4]; any other tag leaves the     *)
(* four fields alone.  The parser returns success and applies the core     *)
(* updates either way, and a datagram of 9 bytes or fewer never changes    *)
(* the telemetry.                                                          *)
(***************************************************************************)
C22_ExtendedTelemetry ==
    [][Called(2015, "read_robot_packet") /\ out'.data # NULL =>
        LET d == out'.data
            byte(k) == IF k < Len(d) THEN d[k + 1] ELSE 0
            old == Telemetry(cfg)
        IN  /\ Len(d) <= 9 => Telemetry(cfg') = old
            /\ Len(d) > 9 =>
                   /\ out'.ret = 1
                   /\ cfg'.emergency_stopped = (byte(3) >= 128)
                   /\ cfg'.robot_code = ((byte(4) \div 32) % 2 = 1)
                   /\ cfg'.robot_voltage = Volts(byte(5), byte(6))
                   /\ Telemetry(cfg') =
                          (CASE byte(9) = 14 -> <<byte(10), old[2], old[3], old[4]>>
                             [] byte(9) = 5 -> <<old[1], byte(3), old[3], old[4]>>
                             [] byte(9) = 6 -> <<old[1], old[2], byte(4), old[4]>>
                             [] byte(9) = 4 -> <<old[1], old[2], old[3], byte(4)>>
                             [] OTHER -> old)]_vars

\* An extended datagram with the CAN tag was read
C22_CanUtilizationRead ==
    /\ protocol = 2015 /\ out.op = "read_robot_packet" /\ out.ret = 1
    /\ Len(out.data) = 11 /\ out.data[10] = 14
    /\ Telemetry(cfg) = <<77, 0, 0, 0>>

(***************************************************************************)
(* C23: send_time_data of 2015 follows the most recent robot reply.  An    *)
(* accepted reply sets it when its request byte (index 7) is 0x01 and      *)
(* clears it otherwise, reset_robot clears it, and no other call changes   *)
(* it.  While it is set every robot packet is the header followed by the   *)
(* timezone block and nothing else, whatever the counter; while it is      *)
(* clear a robot packet is the header followed by the joystick data when   *)
(* the robot counter is above 5, and the bare header before that.          *)
(***************************************************************************)
C23_DateFollowsLastReply ==
    [][protocol = 2015 =>
        /\ out'.op = "read_robot_packet" /\ out'.ret = 1 =>
               frc_2015'.send_time_data =
                   (IF Len(out'.data) >= 8 /\ out'.data[8] = 1 THEN 1 ELSE 0)
        /\ out'.op = "reset_robot" => frc_2015'.send_time_data = 0
        /\ ~(out'.op = "read_robot_packet" /\ out'.ret = 1) /\ out'.op # "reset_robot"
               => frc_2015'.send_time_data = frc_2015.send_time_data
        /\ out'.op = "create_robot_packet" =>
               LET p == out'.packet
                   rest == SubSeq(p, 7, Len(p))
               IN  IF frc_2015.send_time_data = 1
                       THEN /\ \E tm \in LocalTimes : rest = get_timezone_data_2015(tm)
                            /\ HasTimezoneBlock(p) /\ ~HasJoystickBlock(p)
                   ELSE IF U32_Gt(frc_2015.sent_robot_packets, 5)
                       THEN /\ \E js \in JoystickStates : rest = get_joystick_data_2015(js)
                            /\ ~HasTimezoneBlock(p)
                   ELSE rest = <<>>]_vars

\* With the counter past 5 a robot packet went out with the timezone block
\* and no joystick data, the robot having asked for the date
C23_DateInsteadOfJoysticks ==
    /\ protocol = 2015 /\ out.op = "create_robot_packet"
    /\ frc_2015.send_time_data = 1
    /\ frc_2015.sent_robot_packets = U32(0, 7)
    /\ HasTimezoneBlock(out.packet) /\ ~HasJoystickBlock(out.packet)

\* From byte i (counted from 1) on, the packet holds the frames of the
\* joysticks k, k + 1, ... of the registry js and then ends: each frame is
\* the size byte 2 + 3 + (axes + 1) + (2 * hats + 1), the tag 0x0c, the
\* axis count and the axis bytes, the button count and two flag bytes, the
\* hat count and two bytes for each hat, and is as long as its size byte says
RECURSIVE JoystickFrames(_, _, _, _)
JoystickFrames(packet, i, js, k) ==
    IF k >= DS_GetJoystickCount(js) THEN i = Len(packet) + 1
    ELSE LET axes == DS_GetJoystickNumAxes(js, k)
             hats == DS_GetJoystickNumHats(js, k)
             emitted == 1 + 1 + 1 + axes + 1 + 2 + 1 + 2 * hats
         IN  /\ i + emitted - 1 <= Len(packet)
             /\ packet[i] = 2 + 3 + (axes + 1) + (2 * hats + 1)
             /\ packet[i] = emitted
             /\ packet[i + 1] = 12
             /\ packet[i + 2] = axes
             /\ packet[i + 3 + axes] = DS_GetJoystickNumButtons(js, k)
             /\ packet[i + 6 + axes] = hats
             /\ JoystickFrames(packet, i + emitted, js, k + 1)

RECURSIVE FramesLength(_, _)
FramesLength(js, k) ==
    IF k >= DS_GetJoystickCount(js) THEN 0
    ELSE 7 + DS_GetJoystickNumAxes(js, k) + 2 * DS_GetJoystickNumHats(js, k)
         + FramesLength(js, k + 1)

(***************************************************************************)
(* C25: the joystick framing of 2015.  In a robot packet that carries      *)
(* joysticks, each joystick of the registry has a frame whose size byte is *)
(* 2 + 3 + (axes + 1) + (2 * hats + 1), which is the number of bytes of    *)
(* the frame, so the packet is 6 + the sum over the joysticks of           *)
(* (7 + axes + 2 * hats) bytes long.                                       *)
(***************************************************************************)
C25_JoystickFraming ==
    [][(/\ Called(2015, "create_robot_packet")
        /\ frc_2015.send_time_data = 0 /\ U32_Gt(frc_2015.sent_robot_packets, 5))
       => \E js \in JoystickStates :
              /\ JoystickFrames(out'.packet, 7, js, 0)
              /\ Len(out'.packet) = 6 + FramesLength(js, 0)]_vars

\* A robot packet went out with the frames of two joysticks, of 11 and of 8
\* bytes
C25_TwoJoysticksFramed ==
    /\ protocol = 2015 /\ out.op = "create_robot_packet"
    /\ Len(out.packet) = 25
    /\ out.packet[7] = 11 /\ out.packet[8] = 12
    /\ out.packet[18] = 8 /\ out.packet[19] = 12

(***************************************************************************)
(* C26: in every 2014 robot packet bytes 1020-1023 hold the 32-bit value   *)
(* DS_CRC32 returned for the packet, most significant byte first: byte     *)
(* 1020 its bits 31-24, byte 1021 bits 23-16, byte 1022 bits 15-8, byte    *)
(* 1023 bits 7-0.                                                          *)
(***************************************************************************)
C26_ChecksumBigEndian ==
    [][Called(2014, "create_robot_packet") =>
        LET p == out'.packet
            summed == [p EXCEPT ![1021] = 0, ![1022] = 0, ![1023] = 0, ![1024] = 0]
        IN  \E size \in PointerSizes :
                LET crc == DS_CRC32(crc32_2014, summed, size)
                IN  /\ p[1021] = crc[1] \div 256 /\ p[1022] = crc[1] % 256
                    /\ p[1023] = crc[2] \div 256 /\ p[1024] = crc[2] % 256]_vars

(***************************************************************************)
(* C27: every index at which read_robot_packet and read_extended of 2015   *)
(* read a datagram they accept is smaller than the datagram's length, for  *)
(* every accepted length (7 and above) and every tag.                      *)
(***************************************************************************)
C27_ReadsWithinDatagram ==
    [][Called(2015, "read_robot_packet") /\ out'.ret = 1 =>
        \A k \in read_robot_packet_2015_indices(out'.data) : k < Len(out'.data)]_vars

(***************************************************************************)
(* C28: resync of 2014 is a latch.  reset_robot sets it and no builder,    *)
(* parser, reset hook or one-shot command clears it, so every robot packet *)
(* built while it is set has bit 0x04 in its control byte unless the       *)
(* e-stop or a pending reboot overrides the byte.                          *)
(***************************************************************************)
C28_ResyncLatch ==
    [][protocol = 2014 =>
        /\ out'.op = "reset_robot" => frc_2014'.resync = 1
        /\ frc_2014.resync = 1 => frc_2014'.resync = 1
        /\ (/\ out'.op = "create_robot_packet" /\ frc_2014.resync = 1
            /\ ~cfg.emergency_stopped /\ frc_2014.reboot = 0)
           => (out'.packet[3] \div 4) % 2 = 1]_vars

\* After the robot watchdog had expired and an FMS datagram had been read,
\* the second robot packet still asked the robot to resynchronise
C28_ResyncStillSent ==
    /\ protocol = 2014 /\ out.op = "create_robot_packet"
    /\ frc_2014.resync = 1 /\ frc_2014.sent_robot_packets = U32(0, 2)
    /\ cfg.alliance = DS_ALLIANCE_BLUE
    /\ (out.packet[3] \div 4) % 2 = 1

(***************************************************************************)
(* C29: read_fms_packet of 2015 never switches the driver station into     *)
(* Teleoperated: after an accepted FMS datagram the control mode is        *)
(* Teleoperated only if it was before the call, and a control byte with    *)
(* neither 0x02 nor 0x01 leaves the control mode as it was.                *)
(***************************************************************************)
C29_NeverIntoTeleoperated ==
    [][Called(2015, "read_fms_packet") /\ out'.ret = 1 =>
        /\ cfg'.control_mode = DS_CONTROL_TELEOPERATED
               => cfg.control_mode = DS_CONTROL_TELEOPERATED
        /\ out'.data[4] % 4 = 0 => cfg'.control_mode = cfg.control_mode]_vars

\* An FMS datagram that enables the robot with no mode bit was read, and
\* the driver station is still in autonomous mode
C29_StillAutonomous ==
    /\ protocol = 2015 /\ out.op = "read_fms_packet" /\ out.ret = 1
    /\ out.data[4] = 4
    /\ cfg.control_mode = DS_CONTROL_AUTONOMOUS /\ cfg.robot_enabled

====
